---- MODULE Spec2Model ----
(***************************************************************************)
(* Job orchestration engine of the FROGS MCP server: command builder,      *)
(* job launcher, completion monitor (JobPoller daemon thread) and          *)
(* cancellation, over the SQLite store of database.py.                     *)
(*                                                                         *)
(* Handlers called by the server (submit_job, create_project) are one      *)
(* action each.  The poller thread runs concurrently with the handlers,    *)
(* so its loop body is split at every store transaction, and cancel_job    *)
(* is split between os.kill and its update_job_status, where the poller    *)
(* can interleave.                                                         *)
(*                                                                         *)
(* Spec is the engine.  SpecFault is the engine with a store that may      *)
(* raise under the poller.  SpecResolve runs resolve_inputs_for_step of    *)
(* pipeline.py over the contents the store can have, SpecRules for the     *)
(* steps that several rules lead into.  SpecSteps is the                   *)
(* pipeline of one project, with the resolver called between the other     *)
(* operations.  SpecLive is the engine with a poller that keeps running.   *)
(* SpecRestart is that engine with restarts of the server process.         *)
(* SpecLock is the launcher and the poller at the lock of the registry.    *)
(* SpecServer is the engine driven through the server tool                 *)
(* submit_pipeline_step.  SpecBuild is one call of build_command over the  *)
(* parameter maps a caller can pass.                                       *)
(***************************************************************************)
EXTENDS Integers, Sequences, FiniteSets, TLC

VARIABLES
    projects,   \* table projects: set of project ids
    steps,      \* table pipeline_steps: project id -> step name -> record
    jobs,       \* table jobs: job id -> record
    procs,      \* operating-system processes started by Popen: job id -> record
    disk,       \* the regular files found by the last scan of a job's output files
    dirs,       \* job working directories created by os.makedirs
    active,     \* JobPoller._active: job id -> (project_id, step_name)
    mon,        \* JobPoller thread in _poll_loop: position, the list completed of
                \* the tick (scanned) and what the for loop has left of it (completed)
    can,        \* position of a cancel_job call between os.kill and its update
    ret,        \* outcome of the last handler call that returned or raised
    res,        \* arguments and result of the last call of resolve_inputs_for_step
    build,      \* arguments and result of the call of build_command in SpecBuild
    lock        \* JobPoller._lock: its holder, the poller's scan while it holds it,
                \* and the submit_job calls that have reached register (SpecLock)

vars == <<projects, steps, jobs, procs, disk, dirs, active, mon, can, ret, res, build, lock>>

-----------------------------------------------------------------------------
(* Bounds of the model                                                     *)

MaxJobs == 2        \* job ids handed out by uuid4 are 1..MaxJobs

-----------------------------------------------------------------------------
(* Python values                                                           *)

NoneV == [k |-> "none"]
StrV(s) == [k |-> "str", s |-> s]
BoolV(b) == [k |-> "bool", b |-> b]
IntV(n) == [k |-> "int", n |-> n]
ListV(l) == [k |-> "list", l |-> l]

\* Python truthiness of a value (bool(val))
Truthy(v) ==
    CASE v.k = "none" -> FALSE
      [] v.k = "str"  -> v.s # ""
      [] v.k = "bool" -> v.b
      [] v.k = "int"  -> v.n # 0
      [] v.k = "list" -> v.l # <<>>

\* None for an optional string (project_id, step_name); falsy like ""
None == "None"
\* NULL of an integer column, and a stored integer
Null == <<>>
Some(x) == <<x>>

Digit(d) == CASE d = 0 -> "0" [] d = 1 -> "1" [] d = 2 -> "2" [] d = 3 -> "3"
              [] d = 4 -> "4" [] d = 5 -> "5" [] d = 6 -> "6" [] d = 7 -> "7"
              [] d = 8 -> "8" [] d = 9 -> "9"

RECURSIVE NatStr(_)
NatStr(n) == IF n < 10 THEN Digit(n) ELSE NatStr(n \div 10) \o Digit(n % 10)

\* str() of an int
IntStr(n) == IF n < 0 THEN "-" \o NatStr(0 - n) ELSE NatStr(n)

\* str.split(): the whitespace-delimited words of a string
RECURSIVE SplitFrom(_, _, _)
SplitFrom(s, i, word) ==
    IF i > Len(s)
    THEN IF word = "" THEN <<>> ELSE <<word>>
    ELSE LET c == SubSeq(s, i, i) IN
         IF c = " "
         THEN (IF word = "" THEN <<>> ELSE <<word>>) \o SplitFrom(s, i + 1, "")
         ELSE SplitFrom(s, i + 1, word \o c)

Split(s) == SplitFrom(s, 1, "")

\* str(val) as build_command appends it to the command
ValStr(v) ==
    CASE v.k = "str"  -> v.s
      [] v.k = "int"  -> IntStr(v.n)
      [] v.k = "bool" -> IF v.b THEN "True" ELSE "False"
      [] v.k = "none" -> "None"

\* os.path.isabs and os.path.join (POSIX)
isabs(p) == Len(p) > 0 /\ SubSeq(p, 1, 1) = "/"
join(a, b) == IF isabs(b) THEN b ELSE a \o "/" \o b

-----------------------------------------------------------------------------
(* config.py                                                               *)

DEFAULT_NB_CPUS == 4
FROGS_PYTHON == "/usr/bin/python3"
WORKSPACE_ROOT == "/srv/workspaces"
FROGS_TOOLS_DIR == "/srv/FROGS/tools"

-----------------------------------------------------------------------------
(* tools_registry.py: the catalogue, restricted to five tools and to the   *)
(* parameters below; every other tool has the same shape.                  *)

ParamSpec(python_name, cli_flag, required, type, default, is_input_file, is_output_file, output_key) ==
    [python_name |-> python_name, cli_flag |-> cli_flag, required |-> required,
     type |-> type, default |-> default, is_input_file |-> is_input_file,
     is_output_file |-> is_output_file, output_key |-> output_key]

nb_cpus_param == ParamSpec("nb_cpus", "--nb-cpus", FALSE, "int", IntV(1), FALSE, FALSE, "")
debug_param == ParamSpec("debug", "--debug", FALSE, "bool", BoolV(FALSE), FALSE, FALSE, "")

reads_processing ==
    [name |-> "reads_processing", script_name |-> "reads_processing.py",
     has_subparser |-> TRUE, subparser_param |-> "sequencer",
     params |-> <<
        ParamSpec("sequencer", "", TRUE, "str", NoneV, FALSE, FALSE, ""),
        nb_cpus_param,
        debug_param,
        ParamSpec("merge_software", "--merge-software", FALSE, "str", StrV("vsearch"), FALSE, FALSE, ""),
        ParamSpec("min_amplicon_size", "--min-amplicon-size", TRUE, "int", NoneV, FALSE, FALSE, ""),
        ParamSpec("input_R1", "--input-R1", FALSE, "list", NoneV, TRUE, FALSE, ""),
        ParamSpec("output_fasta", "--output-fasta", FALSE, "str", StrV("reads_processing.fasta"), FALSE, TRUE, "fasta"),
        ParamSpec("output_biom", "--output-biom", FALSE, "str", StrV("reads_processing_abundance.biom"), FALSE, TRUE, "biom")
     >>]

remove_chimera ==
    [name |-> "remove_chimera", script_name |-> "remove_chimera.py",
     has_subparser |-> FALSE, subparser_param |-> "",
     params |-> <<
        nb_cpus_param,
        debug_param,
        ParamSpec("input_fasta", "--input-fasta", TRUE, "str", NoneV, TRUE, FALSE, ""),
        ParamSpec("input_biom", "--input-biom", TRUE, "str", NoneV, TRUE, FALSE, ""),
        ParamSpec("output_fasta", "--output-fasta", FALSE, "str", StrV("remove_chimera.fasta"), FALSE, TRUE, "fasta")
     >>]

cluster_filters ==
    [name |-> "cluster_filters", script_name |-> "cluster_filters.py",
     has_subparser |-> FALSE, subparser_param |-> "",
     params |-> <<
        nb_cpus_param,
        debug_param,
        ParamSpec("input_biom", "--input-biom", TRUE, "str", NoneV, TRUE, FALSE, ""),
        ParamSpec("input_fasta", "--input-fasta", TRUE, "str", NoneV, TRUE, FALSE, ""),
        ParamSpec("output_biom", "--output-biom", FALSE, "str", StrV("cluster_filters_abundance.biom"), FALSE, TRUE, "biom"),
        ParamSpec("output_fasta", "--output-fasta", FALSE, "str", StrV("cluster_filters.fasta"), FALSE, TRUE, "fasta")
     >>]

taxonomic_affiliation ==
    [name |-> "taxonomic_affiliation", script_name |-> "taxonomic_affiliation.py",
     has_subparser |-> FALSE, subparser_param |-> "",
     params |-> <<
        nb_cpus_param,
        debug_param,
        ParamSpec("reference", "--reference", TRUE, "str", NoneV, TRUE, FALSE, ""),
        ParamSpec("input_biom", "--input-biom", TRUE, "str", NoneV, TRUE, FALSE, ""),
        ParamSpec("input_fasta", "--input-fasta", TRUE, "str", NoneV, TRUE, FALSE, ""),
        ParamSpec("output_biom", "--output-biom", FALSE, "str", StrV("affiliation_abundance.biom"), FALSE, TRUE, "biom")
     >>]

affiliation_postprocess ==
    [name |-> "affiliation_postprocess", script_name |-> "affiliation_postprocess.py",
     has_subparser |-> FALSE, subparser_param |-> "",
     params |-> <<
        debug_param,
        ParamSpec("input_biom", "--input-biom", TRUE, "str", NoneV, TRUE, FALSE, ""),
        ParamSpec("input_fasta", "--input-fasta", TRUE, "str", NoneV, TRUE, FALSE, ""),
        ParamSpec("reference", "--reference", FALSE, "str", NoneV, TRUE, FALSE, ""),
        ParamSpec("output_biom", "--output-biom", FALSE, "str", StrV("affiliation_postprocess_abundance.biom"), FALSE, TRUE, "biom"),
        ParamSpec("output_fasta", "--output-fasta", FALSE, "str", StrV("affiliation_postprocess_ASV.fasta"), FALSE, TRUE, "fasta")
     >>]

\* a conversion tool: no rule of FLOW_RULES has it as target
biom_to_tsv ==
    [name |-> "biom_to_tsv", script_name |-> "biom_to_tsv.py",
     has_subparser |-> FALSE, subparser_param |-> "",
     params |-> <<
        debug_param,
        ParamSpec("header", "--header", FALSE, "bool", BoolV(FALSE), FALSE, FALSE, ""),
        ParamSpec("input_biom", "--input-biom", TRUE, "str", NoneV, TRUE, FALSE, ""),
        ParamSpec("input_fasta", "--input-fasta", FALSE, "str", NoneV, TRUE, FALSE, ""),
        ParamSpec("output_tsv", "--output-tsv", FALSE, "str", StrV("abundance.tsv"), FALSE, TRUE, "tsv"),
        ParamSpec("output_multi_affi", "--output-multi-affi", FALSE, "str", StrV("multihits.tsv"), FALSE, TRUE, "multi_affi_tsv")
     >>]

TOOLS ==
    [n \in {"reads_processing", "remove_chimera", "cluster_filters", "taxonomic_affiliation",
            "affiliation_postprocess", "biom_to_tsv"} |->
        CASE n = "reads_processing" -> reads_processing
          [] n = "remove_chimera" -> remove_chimera
          [] n = "cluster_filters" -> cluster_filters
          [] n = "taxonomic_affiliation" -> taxonomic_affiliation
          [] n = "affiliation_postprocess" -> affiliation_postprocess
          [] n = "biom_to_tsv" -> biom_to_tsv]

script_path(tool_spec) == FROGS_TOOLS_DIR \o "/" \o tool_spec.name \o "/" \o tool_spec.script_name

PIPELINE_ORDER == <<"reads_processing", "remove_chimera">>
OPTIONAL_STEPS == <<"demultiplex">>

-----------------------------------------------------------------------------
(* job_manager.py: build_command                                           *)

EmptyMap == [x \in {} |-> ""]

Range(s) == {s[i] : i \in DOMAIN s}

\* param_map = {p.python_name: p for p in tool_spec.params}: the declared names
param_map(tool_spec) == {p.python_name : p \in Range(tool_spec.params)}

\* params.get(name)
Get(params, name) == IF name \in DOMAIN params THEN params[name] ELSE NoneV

\* variant: the default of every parameter that has one is applied
MergedDefaults_every_default(tool_spec, params) ==
    LET ps == {p \in Range(tool_spec.params) :
                  /\ p.python_name # tool_spec.subparser_param
                  /\ \/ p.python_name \in DOMAIN params
                     \/ p.default # NoneV}
    IN [n \in {p.python_name : p \in ps} |->
          IF n \in DOMAIN params THEN params[n]
          ELSE (CHOOSE p \in ps : p.python_name = n).default]

\* "Apply defaults from ToolSpec if not provided": the caller's value, else the
\* default of an output-file parameter; the positional parameter is skipped
MergedDefaults(tool_spec, params) ==
    LET ps == {p \in Range(tool_spec.params) :
                  /\ p.python_name # tool_spec.subparser_param
                  /\ \/ p.python_name \in DOMAIN params
                     \/ (p.default # NoneV /\ p.is_output_file)}
    IN [n \in {p.python_name : p \in ps} |->
          IF n \in DOMAIN params THEN params[n]
          ELSE (CHOOSE p \in ps : p.python_name = n).default]

\* variant: the value is put under job_dir without the os.path.isabs test
ResolvedValue_always_under_job_dir(v, job_dir) ==
    IF v.k = "str" /\ Truthy(v) THEN StrV(job_dir \o "/" \o v.s) ELSE v

\* the value of an output-file parameter after "val = os.path.join(job_dir, val)"
ResolvedValue(v, job_dir) ==
    IF v.k = "str" /\ Truthy(v) /\ ~isabs(v.s) THEN StrV(join(job_dir, v.s)) ELSE v

\* merged after the output-resolution loop
MergedResolved(tool_spec, params, job_dir) ==
    LET m == MergedDefaults(tool_spec, params)
        outs == {p.python_name : p \in {q \in Range(tool_spec.params) : q.is_output_file}}
    IN [n \in DOMAIN m |-> IF n \in outs THEN ResolvedValue(m[n], job_dir) ELSE m[n]]

\* resolved_outputs: output_key -> absolute path; a later parameter with the
\* same key overwrites an earlier one
RECURSIVE ResolveOutputs(_, _, _, _)
ResolveOutputs(tool_spec, merged, i, acc) ==
    IF i > Len(tool_spec.params) THEN acc
    ELSE LET p == tool_spec.params[i] IN
         IF p.is_output_file /\ p.python_name \in DOMAIN merged
            /\ p.output_key # "" /\ Truthy(merged[p.python_name])
         THEN ResolveOutputs(tool_spec, merged, i + 1,
                [k \in DOMAIN acc \cup {p.output_key} |->
                    IF k = p.output_key THEN merged[p.python_name].s ELSE acc[k]])
         ELSE ResolveOutputs(tool_spec, merged, i + 1, acc)

\* merged after the nb_cpus default
MergedCpus(tool_spec, merged) ==
    IF "nb_cpus" \in param_map(tool_spec) /\ "nb_cpus" \notin DOMAIN merged
    THEN [n \in DOMAIN merged \cup {"nb_cpus"} |->
            IF n = "nb_cpus" THEN IntV(DEFAULT_NB_CPUS) ELSE merged[n]]
    ELSE merged

\* variant: a bool is emitted like every other type, flag and str(val)
FlagTokens_bool_as_value(p, tool_spec, merged) ==
    IF p.python_name = tool_spec.subparser_param \/ p.cli_flag = "" THEN <<>>
    ELSE LET val == Get(merged, p.python_name) IN
         IF val = NoneV THEN <<>>
         ELSE IF p.type = "list"
              THEN LET items == IF val.k = "list" THEN val.l ELSE Split(ValStr(val)) IN
                   IF items # <<>> THEN <<p.cli_flag>> \o items ELSE <<>>
         ELSE <<p.cli_flag, ValStr(val)>>

\* variant: a string given for a list is emitted as one item, not split
FlagTokens_list_unsplit(p, tool_spec, merged) ==
    IF p.python_name = tool_spec.subparser_param \/ p.cli_flag = "" THEN <<>>
    ELSE LET val == Get(merged, p.python_name) IN
         IF val = NoneV THEN <<>>
         ELSE IF p.type = "bool" THEN (IF Truthy(val) THEN <<p.cli_flag>> ELSE <<>>)
         ELSE IF p.type = "list"
              THEN LET items == IF val.k = "list" THEN val.l
                                ELSE IF ValStr(val) = "" THEN <<>> ELSE <<ValStr(val)>> IN
                   IF items # <<>> THEN <<p.cli_flag>> \o items ELSE <<>>
         ELSE <<p.cli_flag, ValStr(val)>>

\* the tokens one parameter contributes in "Build flag arguments"
FlagTokens(p, tool_spec, merged) ==
    IF p.python_name = tool_spec.subparser_param \/ p.cli_flag = "" THEN <<>>
    ELSE LET val == Get(merged, p.python_name) IN
         IF val = NoneV THEN <<>>
         ELSE IF p.type = "bool" THEN (IF Truthy(val) THEN <<p.cli_flag>> ELSE <<>>)
         ELSE IF p.type = "list"
              THEN LET items == IF val.k = "list" THEN val.l ELSE Split(ValStr(val)) IN
                   IF items # <<>> THEN <<p.cli_flag>> \o items ELSE <<>>
         ELSE <<p.cli_flag, ValStr(val)>>

RECURSIVE FlagArgs(_, _, _)
FlagArgs(tool_spec, merged, i) ==
    IF i > Len(tool_spec.params) THEN <<>>
    ELSE FlagTokens(tool_spec.params[i], tool_spec, merged) \o FlagArgs(tool_spec, merged, i + 1)

\* variant: the positional argument is appended after the flag arguments
build_command_positional_last(tool_spec, params, job_dir) ==
    LET subparser_val == Get(params, tool_spec.subparser_param)
        merged == MergedResolved(tool_spec, params, job_dir)
        outputs == ResolveOutputs(tool_spec, merged, 1, EmptyMap)
        head == <<FROGS_PYTHON, script_path(tool_spec)>>
    IN IF tool_spec.has_subparser /\ ~Truthy(subparser_val)
       THEN [ok |-> FALSE, cmd |-> <<>>, outputs |-> EmptyMap,
             raised |-> <<"ValueError", tool_spec.name, tool_spec.subparser_param>>]
       ELSE [ok |-> TRUE,
             cmd |-> head
                     \o FlagArgs(tool_spec, MergedCpus(tool_spec, merged), 1)
                     \o (IF tool_spec.has_subparser THEN <<ValStr(subparser_val)>> ELSE <<>>),
             outputs |-> outputs, raised |-> <<>>]

\* build_command(tool_spec, params, job_dir): ok = FALSE is the ValueError
\* raised for a positional argument that is absent or falsy; raised holds the
\* tool name and the parameter name its message is formatted with
build_command(tool_spec, params, job_dir) ==
    LET subparser_val == Get(params, tool_spec.subparser_param)
        merged == MergedResolved(tool_spec, params, job_dir)
        outputs == ResolveOutputs(tool_spec, merged, 1, EmptyMap)
        head == <<FROGS_PYTHON, script_path(tool_spec)>>
    IN IF tool_spec.has_subparser /\ ~Truthy(subparser_val)
       THEN [ok |-> FALSE, cmd |-> <<>>, outputs |-> EmptyMap,
             raised |-> <<"ValueError", tool_spec.name, tool_spec.subparser_param>>]
       ELSE [ok |-> TRUE,
             cmd |-> head
                     \o (IF tool_spec.has_subparser THEN <<ValStr(subparser_val)>> ELSE <<>>)
                     \o FlagArgs(tool_spec, MergedCpus(tool_spec, merged), 1),
             outputs |-> outputs, raised |-> <<>>]

-----------------------------------------------------------------------------
(* Inputs of the handlers                                                  *)

ProjectIds == {"p1"}

P_complete == [n \in {"sequencer", "min_amplicon_size"} |->
                 IF n = "sequencer" THEN StrV("illumina") ELSE IntV(400)]
P_empty_positional == [n \in {"sequencer", "min_amplicon_size"} |->
                 IF n = "sequencer" THEN StrV("") ELSE IntV(400)]
P_no_positional == [n \in {"min_amplicon_size"} |-> IntV(400)]
P_no_required == [n \in {"sequencer"} |-> StrV("illumina")]

\* the calls of submit_job: (tool_name, params)
SubmitCalls ==
    {<<"no_such_tool", P_complete>>,
     <<"reads_processing", P_complete>>,
     <<"reads_processing", P_empty_positional>>,
     <<"reads_processing", P_no_positional>>,
     <<"reads_processing", P_no_required>>,
     <<"remove_chimera", P_complete>>}

\* (project_id, step_name) of a call: a standalone job, or a job run as the
\* pipeline step of its tool in project p1 (which may not exist yet)
CallerScopes(tool_name) == {<<None, None>>, <<"p1", tool_name>>}

JobIds == 1 .. MaxJobs

\* exit codes of a process that ends by itself; -15 is death by SIGTERM
OwnExitCodes == {0, 1}
SIGTERM == 15

-----------------------------------------------------------------------------
(* database.py                                                             *)

\* variant: the INSERT leaves status to the column default 'pending'
insert_job_pending(js, job_id, project_id, tool_name, step_name, params, command, working_dir, pid, log_file) ==
    [j \in DOMAIN js \cup {job_id} |->
        IF j = job_id
        THEN [job_id |-> job_id, project_id |-> project_id, tool_name |-> tool_name,
              step_name |-> step_name, params |-> params, command |-> command,
              status |-> "pending", pid |-> Some(pid), start_time |-> job_id,
              end_time |-> Null, exit_code |-> Null,
              stdout_file |-> join(working_dir, "stdout.txt"),
              stderr_file |-> join(working_dir, "stderr.txt"),
              log_file |-> log_file, output_files |-> EmptyMap,
              working_dir |-> working_dir]
        ELSE js[j]]

\* INSERT INTO jobs ... VALUES (..., 'running', pid, now, ...)
insert_job(js, job_id, project_id, tool_name, step_name, params, command, working_dir, pid, log_file) ==
    [j \in DOMAIN js \cup {job_id} |->
        IF j = job_id
        THEN [job_id |-> job_id, project_id |-> project_id, tool_name |-> tool_name,
              step_name |-> step_name, params |-> params, command |-> command,
              status |-> "running", pid |-> Some(pid), start_time |-> job_id,
              end_time |-> Null, exit_code |-> Null,
              stdout_file |-> join(working_dir, "stdout.txt"),
              stderr_file |-> join(working_dir, "stderr.txt"),
              log_file |-> log_file, output_files |-> EmptyMap,
              working_dir |-> working_dir]
        ELSE js[j]]

\* jobs.project_id REFERENCES projects(project_id), PRAGMA foreign_keys=ON
ForeignKeyFails(project_id) == project_id # None /\ project_id \notin projects

\* variant: UPDATE jobs SET status = ?, exit_code = ?, end_time = ?, pid = NULL
update_job_status_clears_pid(js, job_id, status, exit_code) ==
    IF job_id \in DOMAIN js
    THEN [js EXCEPT ![job_id].status = status,
                    ![job_id].exit_code = Some(exit_code),
                    ![job_id].end_time = Some(1),
                    ![job_id].pid = Null]
    ELSE js

\* UPDATE jobs SET status = ?, exit_code = ?, end_time = ? WHERE job_id = ?
update_job_status(js, job_id, status, exit_code) ==
    IF job_id \in DOMAIN js
    THEN [js EXCEPT ![job_id].status = status,
                    ![job_id].exit_code = Some(exit_code),
                    ![job_id].end_time = Some(1)]
    ELSE js

\* UPDATE jobs SET output_files = ? WHERE job_id = ?
update_job_output_files(js, job_id, output_files) ==
    IF job_id \in DOMAIN js
    THEN [js EXCEPT ![job_id].output_files = output_files]
    ELSE js

\* variant: UPDATE pipeline_steps SET status = ? WHERE project_id = ? AND step_name = ?
update_pipeline_step_status_only(st, project_id, step_name, status, job_id) ==
    IF project_id \in DOMAIN st /\ step_name \in DOMAIN st[project_id]
    THEN [st EXCEPT ![project_id][step_name].status = status]
    ELSE st

\* variant: the record keeps the link to a job that was submitted later
update_pipeline_step_latest_submitted(st, project_id, step_name, status, job_id) ==
    IF /\ project_id \in DOMAIN st /\ step_name \in DOMAIN st[project_id]
       /\ (st[project_id][step_name].job_id = Null \/ st[project_id][step_name].job_id[1] <= job_id)
    THEN [st EXCEPT ![project_id][step_name].status = status,
                    ![project_id][step_name].job_id = Some(job_id)]
    ELSE st

\* UPDATE pipeline_steps SET status = ?, job_id = ? WHERE project_id = ? AND step_name = ?
update_pipeline_step(st, project_id, step_name, status, job_id) ==
    IF project_id \in DOMAIN st /\ step_name \in DOMAIN st[project_id]
    THEN [st EXCEPT ![project_id][step_name].status = status,
                    ![project_id][step_name].job_id = Some(job_id)]
    ELSE st

\* server._all_steps_ordered: mandatory steps, then optional ones, numbered from 1
all_steps_ordered ==
    [i \in 1 .. (Len(PIPELINE_ORDER) + Len(OPTIONAL_STEPS)) |->
        IF i <= Len(PIPELINE_ORDER)
        THEN [step_name |-> PIPELINE_ORDER[i], step_order |-> i, is_optional |-> FALSE]
        ELSE [step_name |-> OPTIONAL_STEPS[i - Len(PIPELINE_ORDER)], step_order |-> i,
              is_optional |-> TRUE]]

\* variant: is_optional is left to the column default 0
initialize_pipeline_steps_default_flag(st, project_id, step_list) ==
    [p \in DOMAIN st \cup {project_id} |->
        IF p = project_id /\ p \notin DOMAIN st
        THEN [n \in {s.step_name : s \in Range(step_list)} |->
                LET s == CHOOSE s \in Range(step_list) : s.step_name = n IN
                [step_order |-> s.step_order, job_id |-> Null, status |-> "pending",
                 is_optional |-> FALSE]]
        ELSE st[p]]

\* INSERT OR IGNORE INTO pipeline_steps ... VALUES (?, ?, ?, 'pending', ?)
initialize_pipeline_steps(st, project_id, step_list) ==
    [p \in DOMAIN st \cup {project_id} |->
        IF p = project_id /\ p \notin DOMAIN st
        THEN [n \in {s.step_name : s \in Range(step_list)} |->
                LET s == CHOOSE s \in Range(step_list) : s.step_name = n IN
                [step_order |-> s.step_order, job_id |-> Null, status |-> "pending",
                 is_optional |-> s.is_optional]]
        ELSE st[p]]

-----------------------------------------------------------------------------
(* job_manager.py: submit_job                                              *)

JobIdStr(job_id) == "job-" \o IntStr(job_id)

\* os.path.join(WORKSPACE_ROOT, project_id or "standalone", job_id)
JobDir(project_id, job_id) ==
    join(join(WORKSPACE_ROOT, IF project_id = None THEN "standalone" ELSE project_id),
         JobIdStr(job_id))

\* variant: the catalogue lookup is not checked first, an unknown tool is
\* reported like a tool whose required parameter is missing
Validate_unknown_as_missing(tool_name, params) ==
    IF tool_name \notin DOMAIN TOOLS THEN "MissingRequiredParameter"
    ELSE LET tool_spec == TOOLS[tool_name] IN
         IF \E p \in Range(tool_spec.params) :
                /\ p.required
                /\ p.python_name \notin DOMAIN params
                /\ p.python_name # tool_spec.subparser_param
         THEN "MissingRequiredParameter"
         ELSE IF tool_spec.has_subparser /\ tool_spec.subparser_param \notin DOMAIN params
         THEN "MissingPositionalArgument"
         ELSE "ok"

\* the checks of submit_job before anything is created
Validate(tool_name, params) ==
    IF tool_name \notin DOMAIN TOOLS THEN "UnknownTool"
    ELSE LET tool_spec == TOOLS[tool_name] IN
         IF \E p \in Range(tool_spec.params) :
                /\ p.required
                /\ p.python_name \notin DOMAIN params
                /\ p.python_name # tool_spec.subparser_param
         THEN "MissingRequiredParameter"
         ELSE IF tool_spec.has_subparser /\ tool_spec.subparser_param \notin DOMAIN params
         THEN "MissingPositionalArgument"
         ELSE "ok"

\* variant: the job is not put into _active
register_nothing(act, job_id, project_id, step_name) == act

\* JobPoller.register
register(act, job_id, project_id, step_name) ==
    [j \in DOMAIN act \cup {job_id} |->
        IF j = job_id THEN [project_id |-> project_id, step_name |-> step_name] ELSE act[j]]

\* subprocess.Popen(cmd, ...): the process runs
Popen(ps, pid) ==
    [p \in DOMAIN ps \cup {pid} |->
        IF p = pid THEN [state |-> "running", rc |-> Null] ELSE ps[p]]

\* str(uuid.uuid4()): an identifier never handed out before
NewJobId == Cardinality(dirs) + 1

\* variant: the record is inserted and the anticipated outputs are not stored
SubmitStore_insert_only(js, job_id, project_id, tool_name, step_name, params, built, job_dir) ==
    LET log_file == IF "log" \in DOMAIN built.outputs THEN built.outputs["log"]
                    ELSE join(job_dir, "frogs.log")
    IN insert_job(js, job_id, project_id, tool_name, step_name, params,
                  built.cmd, job_dir, job_id, log_file)

\* the store after insert_job and update_job_output_files of submit_job
SubmitStore(js, job_id, project_id, tool_name, step_name, params, built, job_dir) ==
    LET log_file == IF "log" \in DOMAIN built.outputs THEN built.outputs["log"]
                    ELSE join(job_dir, "frogs.log")
        inserted == insert_job(js, job_id, project_id, tool_name, step_name, params,
                               built.cmd, job_dir, job_id, log_file)
    IN IF built.outputs # EmptyMap
       THEN update_job_output_files(inserted, job_id, built.outputs)
       ELSE inserted

submit_job(tool_name, params, project_id, step_name) ==
    LET v == Validate(tool_name, params) IN
    IF v # "ok"
    THEN /\ ret' = [op |-> "submit", result |-> v]
         /\ UNCHANGED <<projects, steps, jobs, procs, disk, dirs, active, mon, can, res, build, lock>>
    ELSE
      LET job_id == NewJobId
          job_dir == JobDir(project_id, job_id)
          built == build_command(TOOLS[tool_name], params, job_dir)
      IN
      /\ job_id \in JobIds
      /\ dirs' = dirs \cup {job_dir}
      /\ IF ~built.ok
         THEN /\ ret' = [op |-> "submit", result |-> "BuilderValueError"]
              /\ UNCHANGED <<projects, steps, jobs, procs, disk, active, mon, can, res, build, lock>>
         ELSE
           /\ procs' = Popen(procs, job_id)
           /\ IF ForeignKeyFails(project_id)
              THEN /\ ret' = [op |-> "submit", result |-> "IntegrityError"]
                   /\ UNCHANGED <<projects, steps, jobs, disk, active, mon, can, res, build, lock>>
              ELSE /\ jobs' = SubmitStore(jobs, job_id, project_id, tool_name, step_name,
                                          params, built, job_dir)
                   /\ active' = register(active, job_id, project_id, step_name)
                   /\ ret' = [op |-> "submit", result |-> "ok"]
                   /\ UNCHANGED <<projects, steps, disk, mon, can, res, build, lock>>

SubmitJob ==
    \E call \in SubmitCalls :
      \E scope \in CallerScopes(call[1]) :
        submit_job(call[1], call[2], scope[1], scope[2])

-----------------------------------------------------------------------------
(* server.py: create_project                                               *)

CreateProject ==
    \E project_id \in ProjectIds \ projects :
        /\ projects' = projects \cup {project_id}
        /\ steps' = initialize_pipeline_steps(steps, project_id, all_steps_ordered)
        /\ ret' = [op |-> "create_project", result |-> "ok"]
        /\ UNCHANGED <<jobs, procs, disk, dirs, active, mon, can, res, build, lock>>

-----------------------------------------------------------------------------
(* The operating system                                                    *)

\* a process ends: with SIGTERM pending it dies of the signal, otherwise it
\* exits by itself.  The end of a process that has no job record is seen by
\* nothing (no poll, no kill) and is left out.
ProcExit ==
    \E pid \in DOMAIN procs \cap DOMAIN jobs :
        /\ procs[pid].state \in {"running", "signalled"}
        /\ \E rc \in (IF procs[pid].state = "signalled" THEN {0 - SIGTERM} ELSE OwnExitCodes) :
              procs' = [procs EXCEPT ![pid].state = "exited", ![pid].rc = Some(rc)]
        /\ UNCHANGED <<projects, steps, jobs, disk, dirs, active, mon, can, ret, res, build, lock>>

-----------------------------------------------------------------------------
(* job_manager.py: JobPoller._poll_loop                                    *)

\* proc.poll(): the exit code of a process that has ended, else None
poll(ps, pid) == IF pid \in DOMAIN ps /\ ps[pid].state = "exited" THEN ps[pid].rc ELSE Null

\* the process table once poll() has waited for the ended processes: their pids are free
Reaped(ps, completed) == [p \in DOMAIN ps \ {c.job_id : c \in Range(completed)} |-> ps[p]]

\* the jobs a scan finds ended, in the registry's (insertion) order
RECURSIVE CompletedFrom(_, _, _)
CompletedFrom(act, ps, j) ==
    IF j > MaxJobs THEN <<>>
    ELSE (IF j \in DOMAIN act /\ poll(ps, j) # Null
          THEN <<[job_id |-> j, rc |-> poll(ps, j)[1],
                  project_id |-> act[j].project_id, step_name |-> act[j].step_name]>>
          ELSE <<>>) \o CompletedFrom(act, ps, j + 1)

\* variant: the jobs found stay in _active
Unregister_keeps(act, completed) == act

\* "for job_id, *_ in completed: del self._active[job_id]"
Unregister(act, completed) ==
    [j \in DOMAIN act \ {c.job_id : c \in Range(completed)} |-> act[j]]

\* one scan of the registry under the lock
MonitorScan ==
    /\ mon.pc = "sleep"
    /\ LET completed == CompletedFrom(active, procs, 1) IN
       /\ completed # <<>>
       /\ active' = Unregister(active, completed)
       /\ procs' = Reaped(procs, completed)
       /\ mon' = [pc |-> "status", completed |-> completed, scanned |-> completed]
    /\ UNCHANGED <<projects, steps, jobs, disk, dirs, can, ret, res, build, lock>>

\* variant: "completed" if rc <= 0 else "failed"
StatusOf_nonpositive(rc) == IF rc <= 0 THEN "completed" ELSE "failed"

\* status = "completed" if rc == 0 else "failed"
StatusOf(rc) == IF rc = 0 THEN "completed" ELSE "failed"

\* update_job_status(job_id, status, exit_code=rc)
MonitorStatus ==
    /\ mon.pc = "status"
    /\ LET c == Head(mon.completed) IN
       jobs' = update_job_status(jobs, c.job_id, StatusOf(c.rc), c.rc)
    /\ mon' = [mon EXCEPT !.pc = "outputs"]
    /\ UNCHANGED <<projects, steps, procs, disk, dirs, active, can, ret, res, build, lock>>

\* variant: {v: k for k, v in ...}, key and path exchanged
Existing_swapped(output_files, files) ==
    [v \in {output_files[x] : x \in DOMAIN output_files} \cap files |->
        CHOOSE k \in DOMAIN output_files : output_files[k] = v]

\* existing = {k: v for k, v in job["output_files"].items() if os.path.isfile(v)}
Existing(output_files, files) ==
    [k \in {x \in DOMAIN output_files : output_files[x] \in files} |-> output_files[k]]

\* variant: "if existing and existing != job["output_files"]"
PruneOutputs_if_any(js, job_id, files) ==
    IF job_id \in DOMAIN js /\ js[job_id].output_files # EmptyMap
       /\ Existing(js[job_id].output_files, files) # EmptyMap
       /\ Existing(js[job_id].output_files, files) # js[job_id].output_files
    THEN update_job_output_files(js, job_id, Existing(js[job_id].output_files, files))
    ELSE js

\* the store after "if existing != job["output_files"]: update_job_output_files"
PruneOutputs(js, job_id, files) ==
    IF job_id \in DOMAIN js /\ js[job_id].output_files # EmptyMap
       /\ Existing(js[job_id].output_files, files) # js[job_id].output_files
    THEN update_job_output_files(js, job_id, Existing(js[job_id].output_files, files))
    ELSE js

\* get_job, the scan of the output files, update_job_output_files.  The file
\* system is outside the program: tools write files and anyone may remove
\* them, so at the scan any subset of the job's recorded paths may exist.
MonitorOutputs ==
    /\ mon.pc = "outputs"
    /\ LET c == Head(mon.completed) IN
       \E files \in SUBSET Range(jobs[c.job_id].output_files) :
          /\ disk' = files
          /\ jobs' = PruneOutputs(jobs, c.job_id, files)
    /\ mon' = [mon EXCEPT !.pc = "step"]
    /\ UNCHANGED <<projects, steps, procs, dirs, active, can, ret, res, build, lock>>

\* update_pipeline_step(project_id, step_name, status, job_id), then the next job
MonitorStep ==
    /\ mon.pc = "step"
    /\ LET c == Head(mon.completed) IN
       IF c.project_id # None /\ c.step_name # None
       THEN steps' = update_pipeline_step(steps, c.project_id, c.step_name,
                                          StatusOf(c.rc), c.job_id)
       ELSE steps' = steps
    /\ mon' = IF Tail(mon.completed) = <<>>
              THEN [pc |-> "sleep", completed |-> <<>>, scanned |-> <<>>]
              ELSE [mon EXCEPT !.pc = "status", !.completed = Tail(mon.completed)]
    /\ UNCHANGED <<projects, jobs, procs, disk, dirs, active, can, ret, res, build, lock>>

\* variant of the handler below: one try around the whole for loop, the rest of
\* the tick is dropped
MonitorRaise_abort_tick ==
    /\ mon.pc \in {"status", "outputs", "step"}
    /\ mon' = [pc |-> "sleep", completed |-> <<>>, scanned |-> <<>>]
    /\ UNCHANGED <<projects, steps, jobs, procs, disk, dirs, active, can, ret, res, build, lock>>

\* the store call the monitor is about to make for the job at the head raises
\* (update_job_status, get_job, update_job_output_files or
\* update_pipeline_step): nothing is written, "except Exception" prints the
\* error and the for loop takes the next job of the tick
MonitorRaise ==
    /\ mon.pc \in {"status", "outputs", "step"}
    /\ mon' = IF Tail(mon.completed) = <<>>
              THEN [pc |-> "sleep", completed |-> <<>>, scanned |-> <<>>]
              ELSE [mon EXCEPT !.pc = "status", !.completed = Tail(mon.completed)]
    /\ UNCHANGED <<projects, steps, jobs, procs, disk, dirs, active, can, ret, res, build, lock>>

-----------------------------------------------------------------------------
(* job_manager.py: cancel_job                                              *)

\* os.kill(pid, SIGTERM).  While the child has not been reaped the signal is
\* delivered, or refused when the tool has changed its credentials.  Once it
\* has been reaped the pid is free (ProcessLookupError) or has been given to
\* another process: one the caller may signal, or one it may not.
KillOutcomes(ps, pid) ==
    IF pid \in DOMAIN ps THEN {"sent", "EPERM"} ELSE {"ESRCH", "EPERM", "sent"}

\* the effect of a delivered SIGTERM on the process table
Signalled(ps, pid) ==
    IF pid \in DOMAIN ps /\ ps[pid].state = "running"
    THEN [ps EXCEPT ![pid].state = "signalled"]
    ELSE ps

\* variant: "cancelled" is persisted before os.kill is tried
cancel_job_persist_first(job_id, outcome) ==
      /\ can.pc = "idle"
      /\ IF job_id \notin DOMAIN jobs
         THEN /\ ret' = [op |-> "cancel", result |-> "JobNotFound"]
              /\ UNCHANGED <<procs, can, jobs>>
         ELSE IF jobs[job_id].pid = Null
         THEN /\ ret' = [op |-> "cancel", result |-> "false"]
              /\ UNCHANGED <<procs, can, jobs>>
         ELSE /\ outcome \in KillOutcomes(procs, jobs[job_id].pid[1])
              /\ jobs' = [jobs EXCEPT ![job_id].status = "cancelled",
                                      ![job_id].exit_code = Some(0 - SIGTERM),
                                      ![job_id].end_time = Some(1)]
              /\ IF outcome = "sent"
                 THEN /\ procs' = Signalled(procs, jobs[job_id].pid[1])
                      /\ can' = [pc |-> "persist", job |-> job_id]
                      /\ UNCHANGED ret
                 ELSE /\ ret' = [op |-> "cancel",
                                 result |-> IF outcome = "ESRCH" THEN "false"
                                            ELSE "PermissionError"]
                      /\ UNCHANGED <<procs, can>>
      /\ UNCHANGED <<projects, steps, disk, dirs, active, mon, res, build, lock>>

\* cancel_job up to os.kill: get_job, the pid check, the signal, whose
\* outcome is outcome
cancel_job(job_id, outcome) ==
      /\ can.pc = "idle"
      /\ IF job_id \notin DOMAIN jobs
         THEN /\ ret' = [op |-> "cancel", result |-> "JobNotFound"]
              /\ UNCHANGED <<procs, can>>
         ELSE IF jobs[job_id].pid = Null
         THEN /\ ret' = [op |-> "cancel", result |-> "false"]
              /\ UNCHANGED <<procs, can>>
         ELSE /\ outcome \in KillOutcomes(procs, jobs[job_id].pid[1])
              /\ IF outcome = "sent"
                 THEN /\ procs' = Signalled(procs, jobs[job_id].pid[1])
                      /\ can' = [pc |-> "persist", job |-> job_id]
                      /\ UNCHANGED ret
                 ELSE /\ ret' = [op |-> "cancel",
                                 result |-> IF outcome = "ESRCH" THEN "false"
                                            ELSE "PermissionError"]
                      /\ UNCHANGED <<procs, can>>
      /\ UNCHANGED <<projects, steps, jobs, disk, dirs, active, mon, res, build, lock>>

CancelSignal ==
    \E job_id \in JobIds :
      \E outcome \in {"sent", "ESRCH", "EPERM"} : cancel_job(job_id, outcome)

\* variant: the exit code argument is left out (exit_code defaults to None)
CancelPersist_no_exit_code ==
    /\ can.pc = "persist"
    /\ jobs' = [jobs EXCEPT ![can.job].status = "cancelled",
                            ![can.job].exit_code = Null,
                            ![can.job].end_time = Some(1)]
    /\ can' = [pc |-> "idle", job |-> 0]
    /\ ret' = [op |-> "cancel", result |-> "true"]
    /\ UNCHANGED <<projects, steps, procs, disk, dirs, active, mon, res, build, lock>>

\* update_job_status(job_id, "cancelled", exit_code=-15); return True
CancelPersist ==
    /\ can.pc = "persist"
    /\ jobs' = update_job_status(jobs, can.job, "cancelled", 0 - SIGTERM)
    /\ can' = [pc |-> "idle", job |-> 0]
    /\ ret' = [op |-> "cancel", result |-> "true"]
    /\ UNCHANGED <<projects, steps, procs, disk, dirs, active, mon, res, build, lock>>

-----------------------------------------------------------------------------
(* database.py: list_jobs.  pipeline.py: resolve_inputs_for_step           *)

\* SELECT * FROM jobs [WHERE project_id = ?] ORDER BY created_at DESC: the rows
\* from the newest down (insert_job gives created_at and start_time the same
\* instant); "if project_id:" selects every job for a falsy project id
RECURSIVE ListJobsFrom(_, _, _)
ListJobsFrom(js, project_id, j) ==
    IF j < 1 THEN <<>>
    ELSE (IF j \in DOMAIN js
             /\ (project_id \in {None, ""} \/ js[j].project_id = project_id)
          THEN <<js[j]>> ELSE <<>>) \o ListJobsFrom(js, project_id, j - 1)

list_jobs(js, project_id) == ListJobsFrom(js, project_id, MaxJobs)

\* variant: [j for j in jobs if j.get("output_files")]
get_jobs_with_outputs_for_project(js, project_id) ==
    LET Kept(j) == j.output_files # EmptyMap
    IN SelectSeq(list_jobs(js, project_id), Kept)

\* [j for j in jobs if j.get("status") == "completed" and j.get("output_files")]
get_completed_jobs_for_project(js, project_id) ==
    LET Kept(j) == j.status = "completed" /\ j.output_files # EmptyMap
    IN SelectSeq(list_jobs(js, project_id), Kept)

\* variant: the rows in the order list_jobs returned them
AsListed(rows) == rows

\* sorted(completed_jobs, key=lambda j: j.get("start_time", "")): stable
RECURSIVE SortedByStart(_)
SortedByStart(rows) ==
    IF Len(rows) <= 1 THEN rows
    ELSE LET last == rows[Len(rows)]
             front == SortedByStart(SubSeq(rows, 1, Len(rows) - 1))
             NotAfter(j) == j.start_time <= last.start_time
             After(j) == j.start_time > last.start_time
         IN SelectSeq(front, NotAfter) \o <<last>> \o SelectSeq(front, After)

\* dict update: the entries of m written over those of index
Overwrite(index, m) ==
    [k \in DOMAIN index \cup DOMAIN m |-> IF k \in DOMAIN m THEN m[k] ELSE index[k]]

\* f"{src_step}.{out_key}"
full_key(src_step, out_key) == src_step \o "." \o out_key

\* the entries one job writes to full_index
FullEntries(job) ==
    [fk \in {full_key(job.step_name, k) : k \in DOMAIN job.output_files} |->
        job.output_files[CHOOSE k \in DOMAIN job.output_files :
                            full_key(job.step_name, k) = fk]]

\* full_index after the jobs rows[i..]: "src_step.out_key" -> path, later rows win
RECURSIVE FullIndex(_, _, _)
FullIndex(rows, i, index) ==
    IF i > Len(rows) THEN index
    ELSE FullIndex(rows, i + 1, Overwrite(index, FullEntries(rows[i])))

\* key_index after the jobs rows[i..]: out_key -> path, later rows win
RECURSIVE KeyIndex(_, _, _)
KeyIndex(rows, i, index) ==
    IF i > Len(rows) THEN index
    ELSE KeyIndex(rows, i + 1, Overwrite(index, rows[i].output_files))

\* (src_step, output_key, tgt_step, tgt_param): the rules into and out of the
\* steps of the catalogue above
FLOW_RULES ==
    <<<<"reads_processing", "fasta", "remove_chimera", "input_fasta">>,
      <<"reads_processing", "biom", "remove_chimera", "input_biom">>,
      <<"remove_chimera", "fasta", "cluster_filters", "input_fasta">>,
      <<"remove_chimera", "biom", "cluster_filters", "input_biom">>,
      <<"cluster_filters", "fasta", "taxonomic_affiliation", "input_fasta">>,
      <<"cluster_filters", "biom", "taxonomic_affiliation", "input_biom">>,
      <<"cluster_filters", "fasta", "affiliation_postprocess", "input_fasta">>,
      <<"cluster_filters", "biom", "affiliation_postprocess", "input_biom">>,
      <<"taxonomic_affiliation", "biom", "affiliation_postprocess", "input_biom">>>>

\* _RULES_BY_TARGET.get(step_name, []): (src_step, out_key, tgt_param) in rule order
RulesByTarget(step_name) ==
    LET Targets(r) == r[3] = step_name
        into == SelectSeq(FLOW_RULES, Targets)
    IN [i \in DOMAIN into |-> <<into[i][1], into[i][2], into[i][4]>>]

\* _OUTPUT_KEY_TO_INPUT_PARAM.items()
OUTPUT_KEY_TO_INPUT_PARAM ==
    <<<<"fasta", "input_fasta">>, <<"biom", "input_biom">>, <<"rdata", "phyloseq_rdata">>,
      <<"tree", "tree_nwk">>, <<"tsv", "input_tsv">>, <<"compo", "input_compo">>>>

\* {p.python_name for p in tool_spec.params if p.is_input_file}
target_input_params(tool_spec) ==
    {q.python_name : q \in {x \in Range(tool_spec.params) : x.is_input_file}}

\* variant: the loose index is looked up first, the fully-qualified one after
RECURSIVE ApplyRules_loose_first(_, _, _, _, _, _)
ApplyRules_loose_first(rules, i, inputs, full_index, key_index, resolved) ==
    IF i > Len(rules) THEN resolved
    ELSE LET src_step == rules[i][1]
             out_key == rules[i][2]
             tgt_param == rules[i][3]
             next == IF tgt_param \notin inputs THEN resolved
                     ELSE IF out_key \in DOMAIN key_index
                     THEN Overwrite(resolved, [x \in {tgt_param} |-> key_index[out_key]])
                     ELSE IF full_key(src_step, out_key) \in DOMAIN full_index
                     THEN Overwrite(resolved,
                             [x \in {tgt_param} |-> full_index[full_key(src_step, out_key)]])
                     ELSE resolved
         IN ApplyRules_loose_first(rules, i + 1, inputs, full_index, key_index, next)

\* variant: a rule does not write a parameter an earlier rule has resolved
RECURSIVE ApplyRules_first_wins(_, _, _, _, _, _)
ApplyRules_first_wins(rules, i, inputs, full_index, key_index, resolved) ==
    IF i > Len(rules) THEN resolved
    ELSE LET src_step == rules[i][1]
             out_key == rules[i][2]
             tgt_param == rules[i][3]
             next == IF tgt_param \notin inputs \/ tgt_param \in DOMAIN resolved THEN resolved
                     ELSE IF full_key(src_step, out_key) \in DOMAIN full_index
                     THEN Overwrite(resolved,
                             [x \in {tgt_param} |-> full_index[full_key(src_step, out_key)]])
                     ELSE IF out_key \in DOMAIN key_index
                     THEN Overwrite(resolved, [x \in {tgt_param} |-> key_index[out_key]])
                     ELSE resolved
         IN ApplyRules_first_wins(rules, i + 1, inputs, full_index, key_index, next)

\* "Apply explicit FLOW_RULES for this target step", from rule i on
RECURSIVE ApplyRules(_, _, _, _, _, _)
ApplyRules(rules, i, inputs, full_index, key_index, resolved) ==
    IF i > Len(rules) THEN resolved
    ELSE LET src_step == rules[i][1]
             out_key == rules[i][2]
             tgt_param == rules[i][3]
             next == IF tgt_param \notin inputs THEN resolved
                     ELSE IF full_key(src_step, out_key) \in DOMAIN full_index
                     THEN Overwrite(resolved,
                             [x \in {tgt_param} |-> full_index[full_key(src_step, out_key)]])
                     ELSE IF out_key \in DOMAIN key_index
                     THEN Overwrite(resolved, [x \in {tgt_param} |-> key_index[out_key]])
                     ELSE resolved
         IN ApplyRules(rules, i + 1, inputs, full_index, key_index, next)

\* variant: the fallback also writes the parameters a rule has resolved
Shorthand_over_rules(inputs, key_index, resolved) ==
    LET Hits(param_name) ==
            {i \in DOMAIN OUTPUT_KEY_TO_INPUT_PARAM :
                /\ OUTPUT_KEY_TO_INPUT_PARAM[i][2] = param_name
                /\ OUTPUT_KEY_TO_INPUT_PARAM[i][1] \in DOMAIN key_index}
        First(param_name) == CHOOSE i \in Hits(param_name) : \A k \in Hits(param_name) : i <= k
        filled == {q \in inputs : Hits(q) # {}}
    IN Overwrite(resolved,
           [q \in filled |-> key_index[OUTPUT_KEY_TO_INPUT_PARAM[First(q)][1]]])

\* variant: every generic name of the table whose key is in key_index is filled,
\* declared by the target step or not
Shorthand_any_generic(inputs, key_index, resolved) ==
    LET hits == {i \in DOMAIN OUTPUT_KEY_TO_INPUT_PARAM :
                    /\ OUTPUT_KEY_TO_INPUT_PARAM[i][2] \notin DOMAIN resolved
                    /\ OUTPUT_KEY_TO_INPUT_PARAM[i][1] \in DOMAIN key_index}
        Entry(q) == CHOOSE i \in hits : OUTPUT_KEY_TO_INPUT_PARAM[i][2] = q
    IN Overwrite(resolved,
           [q \in {OUTPUT_KEY_TO_INPUT_PARAM[i][2] : i \in hits} |->
               key_index[OUTPUT_KEY_TO_INPUT_PARAM[Entry(q)][1]]])

\* "Shorthand fallback for remaining unresolved inputs": the first entry of the
\* table whose generic name is the parameter and whose key is in key_index
Shorthand(inputs, key_index, resolved) ==
    LET Hits(param_name) ==
            {i \in DOMAIN OUTPUT_KEY_TO_INPUT_PARAM :
                /\ OUTPUT_KEY_TO_INPUT_PARAM[i][2] = param_name
                /\ OUTPUT_KEY_TO_INPUT_PARAM[i][1] \in DOMAIN key_index}
        First(param_name) == CHOOSE i \in Hits(param_name) : \A k \in Hits(param_name) : i <= k
        filled == {q \in inputs \ DOMAIN resolved : Hits(q) # {}}
    IN Overwrite(resolved,
           [q \in filled |-> key_index[OUTPUT_KEY_TO_INPUT_PARAM[First(q)][1]]])

resolve_inputs_for_step(js, project_id, step_name) ==
    IF step_name \notin DOMAIN TOOLS THEN EmptyMap
    ELSE LET completed_jobs == get_completed_jobs_for_project(js, project_id)
             rows == SortedByStart(completed_jobs)
             full_index == FullIndex(rows, 1, EmptyMap)
             key_index == KeyIndex(rows, 1, EmptyMap)
             inputs == target_input_params(TOOLS[step_name])
         IN IF completed_jobs = <<>> THEN EmptyMap
            ELSE Shorthand(inputs, key_index,
                     ApplyRules(RulesByTarget(step_name), 1, inputs, full_index, key_index,
                                EmptyMap))

\* no call of resolve_inputs_for_step has returned yet
NoCall == [project_id |-> None, step_name |-> None, resolved |-> EmptyMap]

\* the calls of resolve_inputs_for_step: (project_id, step_name)
ResolveProjects == {"p1", "p2"}
ResolveSteps == {"reads_processing", "remove_chimera", "no_such_tool"}

\* variant: the call takes the entries it returns out of the job records
ResolveInputs_consuming ==
    \E project_id \in ResolveProjects : \E step_name \in ResolveSteps :
        LET resolved == resolve_inputs_for_step(jobs, project_id, step_name)
            Left(j) == [k \in {x \in DOMAIN jobs[j].output_files :
                                 jobs[j].project_id # project_id
                                 \/ jobs[j].output_files[x] \notin Range(resolved)} |->
                           jobs[j].output_files[k]]
        IN /\ res' = [project_id |-> project_id, step_name |-> step_name,
                      resolved |-> resolved]
           /\ jobs' = [j \in DOMAIN jobs |-> [jobs[j] EXCEPT !.output_files = Left(j)]]
           /\ ret' = [op |-> "resolve", result |-> "ok"]
           /\ UNCHANGED <<projects, steps, procs, disk, dirs, active, mon, can, build, lock>>

\* one call: it reads the store and returns the map
ResolveInputs ==
    \E project_id \in ResolveProjects : \E step_name \in ResolveSteps :
        /\ res' = [project_id |-> project_id, step_name |-> step_name,
                   resolved |-> resolve_inputs_for_step(jobs, project_id, step_name)]
        /\ ret' = [op |-> "resolve", result |-> "ok"]
        /\ UNCHANGED <<projects, steps, jobs, procs, disk, dirs, active, mon, can, build, lock>>

-----------------------------------------------------------------------------

\* nobody holds _lock and no submit_job call is at register
Unlocked == [holder |-> "none", todo |-> <<>>, found |-> <<>>, waiting |-> {}]

\* no call of build_command is under study
NoBuild == [tool_name |-> None, params |-> EmptyMap, job_dir |-> "", out |-> Null]

Init ==
    /\ projects = {}
    /\ steps = [p \in {} |-> EmptyMap]
    /\ jobs = [j \in {} |-> EmptyMap]
    /\ procs = [p \in {} |-> EmptyMap]
    /\ disk = {}
    /\ dirs = {}
    /\ active = [j \in {} |-> EmptyMap]
    /\ mon = [pc |-> "sleep", completed |-> <<>>, scanned |-> <<>>]
    /\ can = [pc |-> "idle", job |-> 0]
    /\ ret = [op |-> "init", result |-> "ok"]
    /\ res = NoCall
    /\ build = NoBuild
    /\ lock = Unlocked

Next ==
    \/ SubmitJob
    \/ CreateProject
    \/ ProcExit
    \/ MonitorScan
    \/ MonitorStatus
    \/ MonitorOutputs
    \/ MonitorStep
    \/ CancelSignal
    \/ CancelPersist

Spec == Init /\ [][Next]_vars

\* the same system with a store that may raise under the monitor
NextFault == Next \/ MonitorRaise

SpecFault == Init /\ [][NextFault]_vars

-----------------------------------------------------------------------------
(* The resolver over the stores the launcher, the monitor and cancel can   *)
(* leave behind: two projects, jobs of either project or of none, run as   *)
(* a pipeline step or not, running or ended with any of their files.       *)

P_chimera == [n \in {"input_fasta", "input_biom"} |->
                 IF n = "input_fasta" THEN StrV("/data/in.fasta") ELSE StrV("/data/in.biom")]

\* (tool_name, params, project_id, run as the pipeline step of the tool or not)
\* of the jobs in the store
StoredJobKinds ==
    {<<call[1], call[2], scope[1], scope[2]>> :
        call \in {<<"reads_processing", P_complete>>, <<"remove_chimera", P_chimera>>},
        scope \in {<<None, FALSE>>, <<"p1", FALSE>>, <<"p2", FALSE>>,
                   <<"p1", TRUE>>, <<"p2", TRUE>>}}

\* the record submit_job stores: insert_job, update_job_output_files
StoreInsert ==
    \E kind \in StoredJobKinds :
      LET job_id == Cardinality(DOMAIN jobs) + 1
          tool_name == kind[1]
          project_id == kind[3]
          step_name == IF kind[4] THEN tool_name ELSE None
          job_dir == JobDir(project_id, job_id)
      IN /\ job_id \in JobIds
         /\ ~ForeignKeyFails(project_id)
         /\ jobs' = SubmitStore(jobs, job_id, project_id, tool_name, step_name, kind[2],
                                build_command(TOOLS[tool_name], kind[2], job_dir), job_dir)
         /\ res' = NoCall
         /\ UNCHANGED <<projects, steps, procs, disk, dirs, active, mon, can, ret, build, lock>>

\* a running job ends: the monitor stores completed or failed and the files
\* it found, or cancel stores cancelled
StoreFinish ==
    \E job_id \in DOMAIN jobs :
      /\ jobs[job_id].status = "running"
      /\ \/ \E rc \in OwnExitCodes :
              \E files \in SUBSET Range(jobs[job_id].output_files) :
                 jobs' = PruneOutputs(update_job_status(jobs, job_id, StatusOf(rc), rc),
                                      job_id, files)
         \/ jobs' = update_job_status(jobs, job_id, "cancelled", 0 - SIGTERM)
      /\ res' = NoCall
      /\ UNCHANGED <<projects, steps, procs, disk, dirs, active, mon, can, ret, build, lock>>

InitResolve ==
    /\ projects = ResolveProjects
    /\ steps = initialize_pipeline_steps(
                  initialize_pipeline_steps([p \in {} |-> EmptyMap], "p1", all_steps_ordered),
                  "p2", all_steps_ordered)
    /\ jobs = [j \in {} |-> EmptyMap]
    /\ procs = [p \in {} |-> EmptyMap]
    /\ disk = {}
    /\ dirs = {}
    /\ active = [j \in {} |-> EmptyMap]
    /\ mon = [pc |-> "sleep", completed |-> <<>>, scanned |-> <<>>]
    /\ can = [pc |-> "idle", job |-> 0]
    /\ ret = [op |-> "init", result |-> "ok"]
    /\ res = NoCall
    /\ build = NoBuild
    /\ lock = Unlocked

NextResolve ==
    \/ StoreInsert
    \/ StoreFinish
    \/ ResolveInputs

SpecResolve == InitResolve /\ [][NextResolve]_vars

-----------------------------------------------------------------------------
(* The resolver for the steps several rules lead into: the store holds     *)
(* jobs of project p1 run as the steps the rules name as sources.          *)

P_affiliation == [n \in {"input_fasta", "input_biom", "reference"} |->
                    CASE n = "input_fasta" -> StrV("/data/in.fasta")
                      [] n = "input_biom" -> StrV("/data/in.biom")
                      [] n = "reference" -> StrV("/data/silva.fasta")]

\* (tool_name, params) of the jobs in the store, each run as the step of its tool
RuleJobKinds ==
    {<<"reads_processing", P_complete>>,
     <<"cluster_filters", P_chimera>>,
     <<"taxonomic_affiliation", P_affiliation>>}

\* the record submit_job stores for a step of project p1
RulesInsert ==
    \E kind \in RuleJobKinds :
      LET job_id == Cardinality(DOMAIN jobs) + 1
          job_dir == JobDir("p1", job_id)
      IN /\ job_id \in JobIds
         /\ jobs' = SubmitStore(jobs, job_id, "p1", kind[1], kind[1], kind[2],
                                build_command(TOOLS[kind[1]], kind[2], job_dir), job_dir)
         /\ res' = NoCall
         /\ UNCHANGED <<projects, steps, procs, disk, dirs, active, mon, can, ret, build, lock>>

\* the steps resolve_inputs_for_step is called for
RuleTargets == {"taxonomic_affiliation", "affiliation_postprocess", "biom_to_tsv"}

\* one call for a step of project p1
ResolveRules ==
    \E step_name \in RuleTargets :
        /\ res' = [project_id |-> "p1", step_name |-> step_name,
                   resolved |-> resolve_inputs_for_step(jobs, "p1", step_name)]
        /\ ret' = [op |-> "resolve", result |-> "ok"]
        /\ UNCHANGED <<projects, steps, jobs, procs, disk, dirs, active, mon, can, build, lock>>

NextRules ==
    \/ RulesInsert
    \/ StoreFinish
    \/ ResolveRules

SpecRules == InitResolve /\ [][NextRules]_vars

-----------------------------------------------------------------------------
(* The pipeline of one project: its steps are submitted with the project   *)
(* id and the step name, and resolve_inputs_for_step is called in between. *)

\* submit_job(step, params, project_id="p1", step_name=step) with parameters
\* that pass validation
SubmitStep ==
    \E call \in {<<"reads_processing", P_complete>>, <<"remove_chimera", P_chimera>>} :
        submit_job(call[1], call[2], "p1", call[1])

NextSteps ==
    \/ SubmitStep
    \/ CreateProject
    \/ ProcExit
    \/ MonitorScan
    \/ MonitorStatus
    \/ MonitorOutputs
    \/ MonitorStep
    \/ CancelSignal
    \/ CancelPersist
    \/ ResolveInputs

SpecSteps == Init /\ [][NextSteps]_vars

-----------------------------------------------------------------------------
(* The engine with a poller thread that keeps running: _poll_loop is       *)
(* "while True: time.sleep(POLL_INTERVAL_SEC); ...", a daemon thread that   *)
(* nothing stops, so each of its steps is taken once it stays possible.    *)
(* Handler calls and process exits may or may not happen.                  *)

MonitorFair ==
    /\ WF_vars(MonitorScan)
    /\ WF_vars(MonitorStatus)
    /\ WF_vars(MonitorOutputs)
    /\ WF_vars(MonitorStep)

SpecLive == Init /\ [][Next]_vars /\ MonitorFair

-----------------------------------------------------------------------------
(* The engine across restarts of the server process.  The store, the       *)
(* directories and the files are on disk and stay; the registry, the       *)
(* poller's position and a handler in progress are memory of the process    *)
(* and are gone.  The started processes are children that nothing stops    *)
(* when the server ends, so they run on.  Startup is the import of          *)
(* job_manager: "_poller = JobPoller()", whose __init__ makes an empty      *)
(* registry and starts the thread; no statement of the startup reads or     *)
(* writes the store.                                                        *)

Restart ==
    /\ active' = [j \in {} |-> EmptyMap]
    /\ mon' = [pc |-> "sleep", completed |-> <<>>, scanned |-> <<>>]
    /\ can' = [pc |-> "idle", job |-> 0]
    /\ ret' = [op |-> "restart", result |-> "ok"]
    /\ UNCHANGED <<projects, steps, jobs, procs, disk, dirs, res, build, lock>>

NextRestart == Next \/ Restart

SpecRestart == Init /\ [][NextRestart]_vars /\ MonitorFair

-----------------------------------------------------------------------------
(* The live registry under JobPoller._lock.  In the specifications above   *)
(* a registration and a scan are one step each; here the scan is taken     *)
(* apart into the steps of its "with self._lock" block, and submit_job is  *)
(* divided where it calls register, so that what the lock excludes is      *)
(* decided by the lock.                                                    *)

\* submit_job up to the call of _poller.register: the process runs and the
\* record is in the store
SubmitLaunch ==
    \E call \in {<<"reads_processing", P_complete>>, <<"remove_chimera", P_chimera>>} :
        LET job_id == NewJobId
            job_dir == JobDir(None, job_id)
            built == build_command(TOOLS[call[1]], call[2], job_dir)
        IN /\ Validate(call[1], call[2]) = "ok"
           /\ built.ok
           /\ job_id \in JobIds
           /\ dirs' = dirs \cup {job_dir}
           /\ procs' = Popen(procs, job_id)
           /\ jobs' = SubmitStore(jobs, job_id, None, call[1], None, call[2], built, job_dir)
           /\ lock' = [lock EXCEPT !.waiting = @ \cup {job_id}]
           /\ UNCHANGED <<projects, steps, disk, active, mon, can, ret, res, build>>

\* variant: register without "with self._lock"
Register_without_lock ==
    \E job_id \in lock.waiting :
        /\ active' = register(active, job_id, None, None)
        /\ lock' = [lock EXCEPT !.waiting = @ \ {job_id}]
        /\ ret' = [op |-> "submit", result |-> "ok"]
        /\ UNCHANGED <<projects, steps, jobs, procs, disk, dirs, mon, can, res, build>>

\* JobPoller.register: "with self._lock: self._active[job_id] = ...", and
\* submit_job returns the job id
Register ==
    \E job_id \in lock.waiting :
        /\ lock.holder = "none"
        /\ active' = register(active, job_id, None, None)
        /\ lock' = [lock EXCEPT !.waiting = @ \ {job_id}]
        /\ ret' = [op |-> "submit", result |-> "ok"]
        /\ UNCHANGED <<projects, steps, jobs, procs, disk, dirs, mon, can, res, build>>

\* the keys of _active in insertion order, which is the order of the job ids
RECURSIVE ActiveFrom(_, _)
ActiveFrom(act, j) ==
    IF j > MaxJobs THEN <<>>
    ELSE (IF j \in DOMAIN act THEN <<j>> ELSE <<>>) \o ActiveFrom(act, j + 1)

\* the poller wakes up and enters "with self._lock", about to iterate _active
ScanAcquire ==
    /\ mon.pc = "sleep"
    /\ lock.holder = "none"
    /\ lock' = [lock EXCEPT !.holder = "poller", !.todo = ActiveFrom(active, 1), !.found = <<>>]
    /\ mon' = [mon EXCEPT !.pc = "scan"]
    /\ UNCHANGED <<projects, steps, jobs, procs, disk, dirs, active, can, ret, res, build>>

\* one iteration of the for loop over _active.items(): rc = proc.poll()
ScanPoll ==
    /\ lock.holder = "poller"
    /\ lock.todo # <<>>
    /\ LET job_id == Head(lock.todo)
           hit == CompletedFrom([j \in {job_id} |-> active[j]], procs, 1)
       IN /\ lock' = [lock EXCEPT !.todo = Tail(@), !.found = @ \o hit]
          /\ procs' = Reaped(procs, hit)
    /\ UNCHANGED <<projects, steps, jobs, disk, dirs, active, mon, can, ret, res, build>>

\* "for job_id, *_ in completed: del self._active[job_id]" and the end of the
\* with block; the tick goes on with the jobs found, if any
ScanRelease ==
    /\ lock.holder = "poller"
    /\ lock.todo = <<>>
    /\ active' = Unregister(active, lock.found)
    /\ lock' = [lock EXCEPT !.holder = "none", !.found = <<>>]
    /\ mon' = IF lock.found = <<>>
              THEN [pc |-> "sleep", completed |-> <<>>, scanned |-> <<>>]
              ELSE [pc |-> "status", completed |-> lock.found, scanned |-> lock.found]
    /\ UNCHANGED <<projects, steps, jobs, procs, disk, dirs, can, ret, res, build>>

NextLock ==
    \/ SubmitLaunch
    \/ Register
    \/ ProcExit
    \/ ScanAcquire
    \/ ScanPoll
    \/ ScanRelease
    \/ MonitorStatus
    \/ MonitorOutputs
    \/ MonitorStep

SpecLock == Init /\ [][NextLock]_vars

-----------------------------------------------------------------------------
(* server.py: submit_pipeline_step                                         *)

\* variant: {**params, **resolved_inputs}, the resolved value wins
MergeParams_resolved_wins(resolved_inputs, params) ==
    [n \in DOMAIN resolved_inputs \cup DOMAIN params |->
        IF n \in DOMAIN resolved_inputs THEN StrV(resolved_inputs[n]) ELSE params[n]]

\* merged_params = {**resolved_inputs, **params}
MergeParams(resolved_inputs, params) ==
    [n \in DOMAIN resolved_inputs \cup DOMAIN params |->
        IF n \in DOMAIN params THEN params[n] ELSE StrV(resolved_inputs[n])]

\* the tool returns an error dict, or the job id of _submit_job, or raises
\* what _submit_job raises
submit_pipeline_step(project_id, step_name, params, auto_resolve_inputs) ==
    IF project_id \notin projects
    THEN /\ ret' = [op |-> "submit_pipeline_step", result |-> "ProjectNotFound"]
         /\ UNCHANGED <<projects, steps, jobs, procs, disk, dirs, active, mon, can, res, build, lock>>
    ELSE IF step_name \notin DOMAIN TOOLS
    THEN /\ ret' = [op |-> "submit_pipeline_step", result |-> "UnknownStep"]
         /\ UNCHANGED <<projects, steps, jobs, procs, disk, dirs, active, mon, can, res, build, lock>>
    ELSE LET resolved_inputs == IF auto_resolve_inputs
                                THEN resolve_inputs_for_step(jobs, project_id, step_name)
                                ELSE EmptyMap
         IN submit_job(step_name, MergeParams(resolved_inputs, params), project_id, step_name)

P_own_fasta == [n \in {"input_fasta"} |-> StrV("/data/own.fasta")]

\* (step_name, params) of the calls of submit_pipeline_step
StepCalls ==
    {<<"reads_processing", P_complete>>,
     <<"remove_chimera", EmptyMap>>,
     <<"remove_chimera", P_own_fasta>>,
     <<"remove_chimera", P_chimera>>,
     <<"no_such_tool", P_chimera>>}

SubmitPipelineStep ==
    \E project_id \in ResolveProjects, call \in StepCalls, auto_resolve_inputs \in BOOLEAN :
        submit_pipeline_step(project_id, call[1], call[2], auto_resolve_inputs)

NextServer ==
    \/ SubmitPipelineStep
    \/ CreateProject
    \/ ProcExit
    \/ MonitorScan
    \/ MonitorStatus
    \/ MonitorOutputs
    \/ MonitorStep

SpecServer == Init /\ [][NextServer]_vars

-----------------------------------------------------------------------------
(* build_command on its own: one call, its arguments drawn by InitBuild    *)

\* the key is not in the caller's dict
Absent == [k |-> "absent"]

\* what the caller's dict may hold under each key; bogus is declared by no tool
BuildOptions ==
    [sequencer      |-> {Absent, NoneV, StrV(""), StrV("illumina")},
     nb_cpus        |-> {Absent, IntV(8)},
     debug          |-> {Absent, BoolV(FALSE), BoolV(TRUE)},
     merge_software |-> {Absent, StrV("flash")},
     input_R1       |-> {Absent, ListV(<<>>), ListV(<<"a.fq", "b.fq">>), ListV(<<"a b.fq">>),
                         StrV(""), StrV("a.fq b.fq")},
     output_fasta   |-> {Absent, NoneV, StrV(""), StrV("out.fasta"), StrV("/data/out.fasta")},
     bogus          |-> {Absent, StrV("x")}]

\* the dict of a choice of one option per key
ParamsOf(choice) == [n \in {m \in DOMAIN choice : choice[m] # Absent} |-> choice[n]]

InitBuild ==
    /\ projects = {}
    /\ steps = [p \in {} |-> EmptyMap]
    /\ jobs = [j \in {} |-> EmptyMap]
    /\ procs = [p \in {} |-> EmptyMap]
    /\ disk = {}
    /\ dirs = {}
    /\ active = [j \in {} |-> EmptyMap]
    /\ mon = [pc |-> "sleep", completed |-> <<>>, scanned |-> <<>>]
    /\ can = [pc |-> "idle", job |-> 0]
    /\ ret = [op |-> "init", result |-> "ok"]
    /\ res = NoCall
    /\ lock = Unlocked
    /\ \E tool_name \in DOMAIN TOOLS :
       \E sequencer \in BuildOptions.sequencer, nb_cpus \in BuildOptions.nb_cpus :
       \E debug \in BuildOptions.debug, merge_software \in BuildOptions.merge_software :
       \E input_R1 \in BuildOptions.input_R1, output_fasta \in BuildOptions.output_fasta :
       \E bogus \in BuildOptions.bogus :
          build = [tool_name |-> tool_name,
                   params |-> ParamsOf([sequencer |-> sequencer, nb_cpus |-> nb_cpus,
                                        debug |-> debug, merge_software |-> merge_software,
                                        input_R1 |-> input_R1, output_fasta |-> output_fasta,
                                        bogus |-> bogus]),
                   job_dir |-> JobDir(None, 1),
                   out |-> Null]

\* the call build_command(tool_spec, params, job_dir) returns or raises
BuildCommand ==
    /\ build.out = Null
    /\ build' = [build EXCEPT !.out = Some(build_command(TOOLS[build.tool_name],
                                                         build.params, build.job_dir))]
    /\ UNCHANGED <<projects, steps, jobs, procs, disk, dirs, active, mon, can, ret, res, lock>>

NextBuild == BuildCommand

SpecBuild == InitBuild /\ [][NextBuild]_vars

-----------------------------------------------------------------------------
(* Claims                                                                  *)

Terminal == {"completed", "failed", "cancelled"}

\* C1: a job record whose status is terminal never changes status again, and
\* no job re-enters running, under any interleaving of submit, ticks and cancel.
C1_StatusMonotone ==
    [][\A j \in DOMAIN jobs :
          jobs[j].status \in Terminal => jobs'[j].status = jobs[j].status]_vars

\* C2: once a cancel has delivered its signal and persisted "cancelled", the job
\* is not in the live registry and nothing writes its record again.
C2_CancelledLeavesRegistry ==
    [][\A j \in DOMAIN jobs :
          jobs[j].status = "cancelled"
             => j \notin DOMAIN active' /\ jobs'[j] = jobs[j]]_vars

\* what C3 promises of a submit step: the call returns, exactly one new job
\* record exists, it is running with a pid, its process has not been waited
\* for and the job is in the live registry
C3_Launched ==
    /\ ret' = [op |-> "submit", result |-> "ok"]
    /\ \E j \in DOMAIN jobs' \ DOMAIN jobs :
          /\ DOMAIN jobs' = DOMAIN jobs \cup {j}
          /\ jobs'[j].status = "running"
          /\ jobs'[j].pid # Null
          /\ jobs'[j].pid[1] \in DOMAIN procs' \ DOMAIN procs
          /\ j \in DOMAIN active'
          /\ \A i \in DOMAIN jobs : jobs'[i] = jobs[i]

\* the parameter map names every required parameter and the positional one
C3_ContainsAll(tool_name, params) ==
    /\ \A p \in Range(TOOLS[tool_name].params) :
          p.required => p.python_name \in DOMAIN params
    /\ TOOLS[tool_name].has_subparser
          => TOOLS[tool_name].subparser_param \in DOMAIN params

C4_UnknownToolNoEffect ==
    [][\A call \in SubmitCalls : \A scope \in CallerScopes(call[1]) :
          (call[1] \notin DOMAIN TOOLS /\ submit_job(call[1], call[2], scope[1], scope[2]))
          => /\ ret' = [op |-> "submit", result |-> "UnknownTool"]
             /\ jobs' = jobs
             /\ active' = active
             /\ procs' = procs]_vars

\* an unknown tool has been refused while a job of an earlier submit exists
C4_Witness ==
    /\ ret = [op |-> "submit", result |-> "UnknownTool"]
    /\ DOMAIN jobs # {}
    /\ DOMAIN active # {}

\* C5: a submit that fails for a missing required parameter or a missing
\* positional argument, raised by the launcher's validation or by the command
\* builder, leaves no job record, no job directory, no process and no registry
\* entry behind.
C5_FailedSubmitLeavesNothing ==
    [][\A call \in SubmitCalls : \A scope \in CallerScopes(call[1]) :
          (/\ submit_job(call[1], call[2], scope[1], scope[2])
           /\ ret' \in {[op |-> "submit", result |-> r] :
                          r \in {"MissingRequiredParameter", "MissingPositionalArgument",
                                 "BuilderValueError"}})
          => /\ jobs' = jobs
             /\ dirs' = dirs
             /\ procs' = procs
             /\ active' = active]_vars

\* C6: a cancel whose signal was delivered goes on to store status cancelled
\* with exit code -15 and to return true; that step is enabled whatever the
\* process does, and it waits for no process.
C6_DeliveredCancelPersists ==
    [][/\ \A j \in DOMAIN jobs :
            (jobs[j].pid # Null /\ cancel_job(j, "sent"))
            => /\ can' = [pc |-> "persist", job |-> j]
               /\ jobs[j].pid[1] \in DOMAIN procs
                     => procs'[jobs[j].pid[1]].state # "running"
       /\ can.pc = "persist" => ENABLED CancelPersist
       /\ can.pc = "persist"
            => \/ can' = can
               \/ /\ can'.pc = "idle"
                  /\ ret' = [op |-> "cancel", result |-> "true"]
                  /\ jobs'[can.job].status = "cancelled"
                  /\ jobs'[can.job].exit_code = Some(-15)
                  /\ \A i \in DOMAIN jobs \ {can.job} : jobs'[i] = jobs[i]
                  /\ procs' = procs]_vars

\* a cancel has returned true, the record is cancelled with exit code -15 and
\* the signalled process has not ended yet
C6_Witness ==
    /\ ret = [op |-> "cancel", result |-> "true"]
    /\ \E j \in DOMAIN jobs :
          /\ jobs[j].status = "cancelled"
          /\ jobs[j].exit_code = Some(-15)
          /\ jobs[j].pid[1] \in DOMAIN procs
          /\ procs[jobs[j].pid[1]].state = "signalled"

\* C7: cancel raises JobNotFound for an unknown job, returns false for a job
\* without a pid or when os.kill finds no such process, raises the permission
\* error when the signal is refused, and in these four outcomes no job record
\* changes; "cancelled" is written only by a cancel whose signal was delivered.
C7_UndeliveredCancelNoEffect ==
    [][/\ \A j \in JobIds : \A outcome \in {"sent", "ESRCH", "EPERM"} :
            cancel_job(j, outcome)
            => /\ jobs' = jobs
               /\ steps' = steps
               /\ j \notin DOMAIN jobs
                     => ret' = [op |-> "cancel", result |-> "JobNotFound"] /\ can' = can
               /\ (j \in DOMAIN jobs /\ jobs[j].pid = Null)
                     => ret' = [op |-> "cancel", result |-> "false"] /\ can' = can
               /\ (j \in DOMAIN jobs /\ jobs[j].pid # Null /\ outcome = "ESRCH")
                     => ret' = [op |-> "cancel", result |-> "false"] /\ can' = can
               /\ (j \in DOMAIN jobs /\ jobs[j].pid # Null /\ outcome = "EPERM")
                     => ret' = [op |-> "cancel", result |-> "PermissionError"] /\ can' = can
               /\ can' # can
                     => j \in DOMAIN jobs /\ jobs[j].pid # Null /\ outcome = "sent"
       /\ \A i \in DOMAIN jobs :
            (jobs'[i].status = "cancelled" /\ jobs[i].status # "cancelled")
            => can = [pc |-> "persist", job |-> i]]_vars

\* a cancel found the process gone and returned false; the record keeps the
\* status and exit code the monitor gave it
C7_Witness ==
    /\ ret = [op |-> "cancel", result |-> "false"]
    /\ can.pc = "idle"
    /\ \E j \in DOMAIN jobs :
          /\ jobs[j].status = "completed"
          /\ jobs[j].exit_code = Some(0)
          /\ jobs[j].pid[1] \notin DOMAIN procs

\* C8: the scan that sees a registered job's process ended with code rc takes
\* the job out of the live registry, and the update that follows stores
\* completed for rc = 0 and failed for any other rc together with exit code rc.
C8_ExitRecorded ==
    [][/\ (mon.pc = "sleep" /\ mon'.pc = "status")
            => \A j \in DOMAIN active :
                  IF procs[j].state = "exited"
                  THEN /\ j \notin DOMAIN active'
                       /\ \E i \in DOMAIN mon'.completed :
                             /\ mon'.completed[i].job_id = j
                             /\ mon'.completed[i].rc = procs[j].rc[1]
                  ELSE j \in DOMAIN active'
       /\ (mon.pc = "status" /\ mon'.pc = "outputs")
            => LET c == Head(mon.completed) IN
               /\ jobs'[c.job_id].status = (IF c.rc = 0 THEN "completed" ELSE "failed")
               /\ jobs'[c.job_id].exit_code = Some(c.rc)
               /\ c.job_id \notin DOMAIN active'
               /\ \A i \in DOMAIN jobs \ {c.job_id} : jobs'[i] = jobs[i]]_vars

\* the monitor recorded a process that died of the signal as failed, exit code -15
C8_Witness ==
    \E j \in DOMAIN jobs :
        /\ jobs[j].status = "failed"
        /\ jobs[j].exit_code = Some(-15)
        /\ j \notin DOMAIN active

\* C9: when the monitor handles an ended job whose stored output map is not
\* empty, the map stored afterwards is exactly the entries whose path is a
\* regular file at that scan.
C9_OutputsPrunedToExisting ==
    [][(mon.pc = "outputs" /\ mon'.pc = "step")
          => LET j == Head(mon.completed).job_id
                 anticipated == jobs[j].output_files
             IN anticipated # EmptyMap
                => jobs'[j].output_files =
                      [k \in {x \in DOMAIN anticipated : anticipated[x] \in disk'} |->
                          anticipated[k]]]_vars

\* the monitor has handled a job of which no anticipated file existed: the
\* stored map is empty
C9_Witness ==
    /\ mon.pc = "step"
    /\ disk = {}
    /\ jobs[Head(mon.completed).job_id].output_files = EmptyMap
    /\ jobs[Head(mon.completed).job_id].tool_name = "reads_processing"

\* C10: once a job's output map is stored at submission its keys never grow,
\* a pruned key never comes back and the path under a surviving key never
\* changes.
C10_OutputMapOnlyShrinks ==
    [][\A j \in DOMAIN jobs :
          /\ DOMAIN jobs'[j].output_files \subseteq DOMAIN jobs[j].output_files
          /\ \A k \in DOMAIN jobs'[j].output_files :
                jobs'[j].output_files[k] = jobs[j].output_files[k]]_vars

\* a job's stored map has lost one of its two anticipated entries and the
\* monitor is done with the job
C10_Witness ==
    \E j \in DOMAIN jobs :
        /\ Cardinality(DOMAIN jobs[j].output_files) = 1
        /\ jobs[j].status \in Terminal
        /\ mon.pc = "sleep"

C12_CancelUpdatesStep ==
    [][(can.pc = "persist" /\ can'.pc = "idle")
          => LET job == jobs[can.job] IN
             (job.project_id # None /\ job.step_name # None)
             => /\ steps'[job.project_id][job.step_name].status = "cancelled"
                /\ steps'[job.project_id][job.step_name].job_id = Some(can.job)]_vars

\* C13: when a store call raises while the monitor handles one ended job of a
\* tick, the jobs of the same tick that follow stay queued in their order and
\* the loop goes to the next of them; its status update, output scan and step
\* update are enabled and have their effect in that tick; after the last job
\* the monitor sleeps and scans again.
C13_RaiseSparesOtherJobs ==
    [][/\ mon.pc # "sleep"
            => /\ mon'.completed \in {mon.completed, Tail(mon.completed)}
               /\ Tail(mon.completed) # <<>>
                     => mon'.pc # "sleep" /\ mon'.scanned = mon.scanned
               /\ (mon'.completed # mon.completed /\ mon'.completed # <<>>)
                     => mon'.pc = "status"
               /\ (mon'.completed # mon.completed /\ mon'.completed = <<>>)
                     => mon'.pc = "sleep"
       /\ mon.pc = "status" => ENABLED MonitorStatus
       /\ mon.pc = "outputs" => ENABLED MonitorOutputs
       /\ mon.pc = "step" => ENABLED MonitorStep
       /\ (mon.pc = "sleep" /\ \E j \in DOMAIN active : procs[j].state = "exited")
            => ENABLED MonitorScan
       /\ (mon.pc = "status" /\ mon'.pc = "outputs")
            => LET c == Head(mon.completed) IN
               /\ jobs'[c.job_id].status = (IF c.rc = 0 THEN "completed" ELSE "failed")
               /\ jobs'[c.job_id].exit_code = Some(c.rc)
       /\ (mon.pc = "outputs" /\ mon'.pc = "step")
            => LET j == Head(mon.completed).job_id IN
               \A k \in DOMAIN jobs'[j].output_files :
                  /\ k \in DOMAIN jobs[j].output_files
                  /\ jobs'[j].output_files[k] \in disk'
       /\ (mon.pc = "step" /\ mon' # mon /\ steps' # steps)
            => LET c == Head(mon.completed) IN
               /\ steps'[c.project_id][c.step_name].status
                     = (IF c.rc = 0 THEN "completed" ELSE "failed")
               /\ steps'[c.project_id][c.step_name].job_id = Some(c.job_id)]_vars

\* two jobs ended in one tick; the status update of the first raised, so its
\* record still says running, and the second has had its terminal status and
\* its pruned output map stored and is at its step update
C13_Witness ==
    /\ mon.pc = "step"
    /\ Len(mon.scanned) = 2
    /\ mon.completed = <<mon.scanned[2]>>
    /\ jobs[mon.scanned[1].job_id].status = "running"
    /\ jobs[mon.scanned[2].job_id].status \in {"completed", "failed"}
    /\ mon.scanned[2].step_name # None

C15_OnlyCompletedOfProject ==
    res # NoCall
    => \A param \in DOMAIN res.resolved :
          /\ \E j \in DOMAIN jobs :
                /\ jobs[j].project_id = res.project_id
                /\ jobs[j].status = "completed"
                /\ res.resolved[param] \in Range(jobs[j].output_files)
          /\ \A j \in DOMAIN jobs :
                res.resolved[param] \in Range(jobs[j].output_files)
                => jobs[j].project_id = res.project_id /\ jobs[j].status = "completed"

\* a call for p1 returned a path while the store also holds a job of p1 that
\* is not completed and still has the same output key in its map
C15_Witness ==
    /\ res.project_id = "p1"
    /\ "input_fasta" \in DOMAIN res.resolved
    /\ \E j \in DOMAIN jobs :
          /\ jobs[j].project_id = "p1"
          /\ jobs[j].status \in {"running", "failed", "cancelled"}
          /\ "fasta" \in DOMAIN jobs[j].output_files

\* C16: of the completed jobs of a project whose output maps hold the same
\* output key, the loose index holds the path of the one started last, and the
\* fully-qualified index holds, for each step, the path of the one of that
\* step started last, whatever the order in which the jobs finished or are
\* listed by the store.
C16_LaterStartedWins ==
    \A project_id \in ResolveProjects :
        LET completed_jobs == get_completed_jobs_for_project(jobs, project_id)
            rows == SortedByStart(completed_jobs)
            key_index == KeyIndex(rows, 1, EmptyMap)
            full_index == FullIndex(rows, 1, EmptyMap)
            Candidates == {j \in DOMAIN jobs : /\ jobs[j].project_id = project_id
                                              /\ jobs[j].status = "completed"}
        IN \A a \in Candidates : \A k \in DOMAIN jobs[a].output_files :
              /\ k \in DOMAIN key_index
              /\ (\A b \in Candidates :
                     k \in DOMAIN jobs[b].output_files
                     => jobs[b].start_time <= jobs[a].start_time)
                 => key_index[k] = jobs[a].output_files[k]
              /\ full_key(jobs[a].step_name, k) \in DOMAIN full_index
              /\ (\A b \in Candidates :
                     (k \in DOMAIN jobs[b].output_files
                      /\ jobs[b].step_name = jobs[a].step_name)
                     => jobs[b].start_time <= jobs[a].start_time)
                 => full_index[full_key(jobs[a].step_name, k)] = jobs[a].output_files[k]

\* two completed jobs of p1, both run as step reads_processing, both with a
\* fasta entry, started at different times
C16_Witness ==
    \E a, b \in DOMAIN jobs :
        /\ jobs[a].start_time < jobs[b].start_time
        /\ \A j \in {a, b} :
              /\ jobs[j].project_id = "p1"
              /\ jobs[j].status = "completed"
              /\ jobs[j].step_name = "reads_processing"
              /\ "fasta" \in DOMAIN jobs[j].output_files

\* C17: for each rule (source step, output key, target step, parameter) whose
\* target is the requested step and whose parameter is a declared input-file
\* parameter of it, what the rules give for the parameter is the entry of the
\* fully-qualified index for (source step, output key) if there is one, else
\* the entry of the loose index for the output key if there is one, else
\* nothing.
C17_FullThenLoose ==
    \A project_id \in ResolveProjects : \A step_name \in ResolveSteps \cap DOMAIN TOOLS :
        LET rows == SortedByStart(get_completed_jobs_for_project(jobs, project_id))
            key_index == KeyIndex(rows, 1, EmptyMap)
            full_index == FullIndex(rows, 1, EmptyMap)
            inputs == target_input_params(TOOLS[step_name])
            given == ApplyRules(RulesByTarget(step_name), 1, inputs, full_index,
                                key_index, EmptyMap)
        IN \A r \in Range(FLOW_RULES) :
              (r[3] = step_name /\ r[4] \in inputs)
              => IF full_key(r[1], r[2]) \in DOMAIN full_index
                 THEN r[4] \in DOMAIN given /\ given[r[4]] = full_index[full_key(r[1], r[2])]
                 ELSE IF r[2] \in DOMAIN key_index
                 THEN r[4] \in DOMAIN given /\ given[r[4]] = key_index[r[2]]
                 ELSE r[4] \notin DOMAIN given

\* a call for remove_chimera in p1 returned, for input_fasta, the fasta of the
\* reads_processing step although a later job, not run as that step, holds
\* the loose entry for fasta, and, for input_biom, the loose entry for biom,
\* there being no biom of the reads_processing step
C17_Witness ==
    /\ res.project_id = "p1"
    /\ res.step_name = "remove_chimera"
    /\ LET rows == SortedByStart(get_completed_jobs_for_project(jobs, "p1"))
           key_index == KeyIndex(rows, 1, EmptyMap)
           full_index == FullIndex(rows, 1, EmptyMap)
       IN /\ "reads_processing.fasta" \in DOMAIN full_index
          /\ "fasta" \in DOMAIN key_index
          /\ key_index["fasta"] # full_index["reads_processing.fasta"]
          /\ "input_fasta" \in DOMAIN res.resolved
          /\ res.resolved["input_fasta"] = full_index["reads_processing.fasta"]
          /\ "reads_processing.biom" \notin DOMAIN full_index
          /\ "biom" \in DOMAIN key_index
          /\ "input_biom" \in DOMAIN res.resolved
          /\ res.resolved["input_biom"] = key_index["biom"]

\* C18: resolveInputs never fails: a call can always be made and returns; for a
\* step that is not in the catalogue, and for a project without a completed
\* job that has outputs, it returns the empty map; the keys of the map it
\* returns are always among the input-file parameters the target step declares.
C18_ResolveTotal ==
    /\ ENABLED ResolveInputs
    /\ res # NoCall
          => /\ ret = [op |-> "resolve", result |-> "ok"]
             /\ res.step_name \notin DOMAIN TOOLS => res.resolved = EmptyMap
             /\ (~\E j \in DOMAIN jobs : /\ jobs[j].project_id = res.project_id
                                         /\ jobs[j].status = "completed"
                                         /\ jobs[j].output_files # EmptyMap)
                   => res.resolved = EmptyMap
             /\ res.step_name \in DOMAIN TOOLS
                   => DOMAIN res.resolved
                         \subseteq {q.python_name : q \in {x \in Range(TOOLS[res.step_name].params) :
                                                             x.is_input_file}}

\* a call for reads_processing, none of whose input-file parameters has a rule
\* or a shorthand name, returned the empty map although the project has a
\* completed job with a fasta
C18_Witness ==
    /\ res.project_id = "p1"
    /\ res.step_name = "reads_processing"
    /\ res.resolved = EmptyMap
    /\ \E j \in DOMAIN jobs :
          /\ jobs[j].project_id = "p1"
          /\ jobs[j].status = "completed"
          /\ "fasta" \in DOMAIN jobs[j].output_files

\* C19: once the monitor has handled a job run as step reads_processing of p1
\* whose process ended with code 0 and whose fasta file (default name) existed
\* at the scan, every resolveInputs(p1, remove_chimera), until a later-started
\* job of that step with a fasta completes, returns for input_fasta the path of
\* that file in the job's working directory.
C19_EndToEnd ==
    \A j \in DOMAIN jobs :
        (/\ jobs[j].project_id = "p1"
         /\ jobs[j].step_name = "reads_processing"
         /\ "output_fasta" \notin DOMAIN jobs[j].params
         /\ steps["p1"]["reads_processing"].status = "completed"
         /\ steps["p1"]["reads_processing"].job_id = Some(j)
         /\ "fasta" \in DOMAIN jobs[j].output_files
         /\ ~\E i \in DOMAIN jobs :
               /\ jobs[i].start_time > jobs[j].start_time
               /\ jobs[i].project_id = "p1"
               /\ jobs[i].step_name = "reads_processing"
               /\ jobs[i].status = "completed"
               /\ "fasta" \in DOMAIN jobs[i].output_files)
        => LET resolved == resolve_inputs_for_step(jobs, "p1", "remove_chimera") IN
           /\ "input_fasta" \in DOMAIN resolved
           /\ resolved["input_fasta"] = join(jobs[j].working_dir, "reads_processing.fasta")

\* C20: create_project gives the new project exactly one step record per step
\* of the catalogue, the mandatory steps numbered in pipeline order and the
\* optional steps after them, each pending and without a linked job; no step
\* of submit, the monitor, cancel or create_project and no call of
\* resolveInputs adds or removes a step record of an existing project or
\* changes the order or the optional flag of one.
C20_StepSetFixed ==
    [][/\ \A p \in projects' \ projects :
             /\ p \in DOMAIN steps' \ DOMAIN steps
             /\ DOMAIN steps'[p] = Range(PIPELINE_ORDER) \cup Range(OPTIONAL_STEPS)
             /\ \A i \in DOMAIN PIPELINE_ORDER :
                   steps'[p][PIPELINE_ORDER[i]]
                      = [step_order |-> i, job_id |-> Null, status |-> "pending",
                         is_optional |-> FALSE]
             /\ \A i \in DOMAIN OPTIONAL_STEPS :
                   steps'[p][OPTIONAL_STEPS[i]]
                      = [step_order |-> Len(PIPELINE_ORDER) + i, job_id |-> Null,
                         status |-> "pending", is_optional |-> TRUE]
       /\ DOMAIN steps' = projects'
       /\ \A p \in DOMAIN steps :
             /\ p \in DOMAIN steps'
             /\ DOMAIN steps'[p] = DOMAIN steps[p]
             /\ \A s \in DOMAIN steps[p] :
                   /\ steps'[p][s].step_order = steps[p][s].step_order
                   /\ steps'[p][s].is_optional = steps[p][s].is_optional]_vars

\* the steps of the project have been run: the first has failed and is linked
\* to its job, a job has been cancelled, resolveInputs has returned a path for
\* the second step, and the optional step is as it was created
C20_Witness ==
    /\ "p1" \in projects
    /\ steps["p1"]["reads_processing"].status = "failed"
    /\ steps["p1"]["reads_processing"].job_id # Null
    /\ steps["p1"]["reads_processing"].step_order = 1
    /\ steps["p1"]["demultiplex"]
          = [step_order |-> 3, job_id |-> Null, status |-> "pending", is_optional |-> TRUE]
    /\ \E j \in DOMAIN jobs : jobs[j].status = "cancelled"
    /\ res.project_id = "p1"
    /\ res.resolved # EmptyMap

\* C21: job records are never deleted; the tool name, step name, project id,
\* parameters, command, process id, start time, working directory and log
\* paths of a record never change after insertion; only status, exit code, end
\* time and output map are modified, and the status is written only by the
\* monitor's status update of that job or by a cancel of that job.
C21_JobRecordFrame ==
    [][\A j \in DOMAIN jobs :
          /\ j \in DOMAIN jobs'
          /\ \A f \in {"job_id", "tool_name", "step_name", "project_id", "params",
                       "command", "pid", "start_time", "working_dir", "log_file",
                       "stdout_file", "stderr_file"} :
                jobs'[j][f] = jobs[j][f]
          /\ DOMAIN jobs'[j] = DOMAIN jobs[j]
          /\ jobs'[j].status # jobs[j].status
                => \/ /\ mon.pc = "status"
                      /\ mon'.pc = "outputs"
                      /\ Head(mon.completed).job_id = j
                   \/ /\ can = [pc |-> "persist", job |-> j]
                      /\ can'.pc = "idle"]_vars

\* a job has been through the monitor and a cancel: its status, exit code, end
\* time and output map are no longer those of the insertion, and it still has
\* its process id and command
C21_Witness ==
    \E j \in DOMAIN jobs :
        /\ jobs[j].status = "cancelled"
        /\ jobs[j].exit_code = Some(-15)
        /\ jobs[j].end_time # Null
        /\ Cardinality(DOMAIN jobs[j].output_files) = 1
        /\ jobs[j].pid = Some(j)
        /\ jobs[j].tool_name = "reads_processing"
        /\ Len(jobs[j].command) > 2

\* the caller's value under a key, Absent when the key is not in the dict
C22_Supplied(name) == IF name \in DOMAIN build.params THEN build.params[name] ELSE Absent

\* the call of build_command under study has returned a command
C22_Returned == build.out # Null /\ build.out[1].ok

C22_Cmd == build.out[1].cmd

\* the positions of a token in the command
C22_Positions(token) == {i \in DOMAIN C22_Cmd : C22_Cmd[i] = token}

\* the flags the tool declares
C22_Flags == {p.cli_flag : p \in Range(TOOLS[build.tool_name].params)} \ {""}

\* C22: for every boolean parameter of the tool, the command build_command
\* returns holds the parameter's flag exactly once when the caller's value is
\* true and not at all when it is false or the key is omitted, and the flag is
\* never followed by a value token: it ends the command or the next token is
\* another parameter's flag.
C22_BoolFlagOnly ==
    C22_Returned =>
        \A p \in Range(TOOLS[build.tool_name].params) :
            p.type = "bool" =>
                /\ C22_Supplied(p.python_name) = BoolV(TRUE)
                      => Cardinality(C22_Positions(p.cli_flag)) = 1
                /\ C22_Supplied(p.python_name) \in {BoolV(FALSE), Absent}
                      => C22_Positions(p.cli_flag) = {}
                /\ \A i \in C22_Positions(p.cli_flag) :
                      i = Len(C22_Cmd) \/ C22_Cmd[i + 1] \in C22_Flags \ {p.cli_flag}

\* a command built with debug true, more flags after --debug
C22_Witness ==
    /\ C22_Returned
    /\ build.tool_name = "reads_processing"
    /\ C22_Supplied("debug") = BoolV(TRUE)
    /\ \E i \in C22_Positions("--debug") : i < Len(C22_Cmd)

\* " ".join(items)
RECURSIVE C23_JoinWords(_)
C23_JoinWords(items) ==
    IF items = <<>> THEN ""
    ELSE IF Len(items) = 1 THEN items[1]
    ELSE items[1] \o " " \o C23_JoinWords(Tail(items))

\* a non-empty string without whitespace
C23_Word(s) == s # "" /\ \A i \in 1 .. Len(s) : SubSeq(s, i, i) # " "

\* the command of the same call with the string in place of the value of key name
C23_CmdWithString(name, string) ==
    build_command(TOOLS[build.tool_name],
                  [n \in DOMAIN build.params |->
                      IF n = name THEN StrV(string) ELSE build.params[n]],
                  build.job_dir).cmd

\* for the list parameter p given as the native list items: the string of the
\* joined items builds the same command, which holds the flag followed by the
\* items in order, and holds no flag when there is no item
C23_SameAsJoined(p, items) ==
    /\ C23_CmdWithString(p.python_name, C23_JoinWords(items)) = C22_Cmd
    /\ items # <<>> =>
          \E i \in C22_Positions(p.cli_flag) :
              /\ i + Len(items) <= Len(C22_Cmd)
              /\ SubSeq(C22_Cmd, i + 1, i + Len(items)) = items
              /\ i + Len(items) = Len(C22_Cmd) \/ C22_Cmd[i + Len(items) + 1] \in C22_Flags
    /\ items = <<>> => C22_Positions(p.cli_flag) = {}

\* C23 as stated: for every list-typed parameter and every native list, the
\* list and the whitespace-joined string of its items build the same command
\* tokens, the flag followed by each item in order, and an empty list builds
\* nothing for the parameter, not even the flag.
C23_ListAndStringAgree ==
    C22_Returned =>
        \A p \in Range(TOOLS[build.tool_name].params) :
            p.type = "list" /\ C22_Supplied(p.python_name).k = "list"
                => C23_SameAsJoined(p, C22_Supplied(p.python_name).l)

\* C23 amended: the same for every native list whose items are non-empty and
\* hold no whitespace; a list or string without items builds nothing for the
\* parameter, not even the flag.
C23_WordListAndStringAgree ==
    C22_Returned =>
        \A p \in Range(TOOLS[build.tool_name].params) :
            p.type = "list" =>
                LET val == C22_Supplied(p.python_name) IN
                /\ val.k = "list" /\ (\A k \in DOMAIN val.l : C23_Word(val.l[k]))
                      => C23_SameAsJoined(p, val.l)
                /\ val \in {ListV(<<>>), StrV("")} => C22_Positions(p.cli_flag) = {}

\* a command built from the native list of two files
C23_Witness ==
    /\ C22_Returned
    /\ C22_Supplied("input_R1") = ListV(<<"a.fq", "b.fq">>)
    /\ \E i \in C22_Positions("--input-R1") :
          C22_Cmd[i + 1] = "a.fq" /\ C22_Cmd[i + 2] = "b.fq"
    /\ C23_CmdWithString("input_R1", "a.fq b.fq") = C22_Cmd

C24_Tool == TOOLS[build.tool_name]

\* the command starts with the interpreter, the script path and the positional
\* value, which occurs nowhere else, and every flag comes after it
C24_PositionalFirst(value) ==
    /\ build.out[1].ok
    /\ Len(C22_Cmd) >= 3
    /\ C22_Cmd[1] = FROGS_PYTHON
    /\ C22_Cmd[2] = script_path(C24_Tool)
    /\ C22_Positions(value) = {3}
    /\ \A flag \in C22_Flags : \A i \in C22_Positions(flag) : i > 3

\* the flags of the command are in the order of tool_spec.params
C24_FlagsInOrder ==
    \A a, b \in DOMAIN C24_Tool.params :
        a < b /\ C24_Tool.params[a].cli_flag # "" /\ C24_Tool.params[b].cli_flag # ""
            => \A i \in C22_Positions(C24_Tool.params[a].cli_flag) :
               \A j \in C22_Positions(C24_Tool.params[b].cli_flag) : i < j

\* the call raised the error whose message names the positional parameter
C24_RaisedNaming == ~build.out[1].ok /\ build.out[1].raised[3] = C24_Tool.subparser_param

\* C24 as stated: for a tool that declares a positional parameter,
\* build_command fails with an error naming the parameter when the key is
\* absent from the caller's parameters, and otherwise emits its value right
\* after the interpreter and the script path and before every flag, with the
\* flags of the other parameters in specification order and the positional
\* value not emitted a second time.
C24_AbsentFailsElseFirst ==
    build.out # Null /\ C24_Tool.has_subparser =>
        LET val == C22_Supplied(C24_Tool.subparser_param) IN
        IF val = Absent
        THEN C24_RaisedNaming
        ELSE C24_PositionalFirst(ValStr(val)) /\ C24_FlagsInOrder

\* C24 amended: build_command fails with the error naming the positional
\* parameter when the key is absent or its value is empty (None or ""), and
\* otherwise emits the value right after the interpreter and the script path
\* and before every flag, the flags of the other parameters in specification
\* order and the positional value not emitted a second time.
C24_EmptyFailsElseFirst ==
    build.out # Null /\ C24_Tool.has_subparser =>
        LET val == C22_Supplied(C24_Tool.subparser_param) IN
        IF val \in {Absent, NoneV, StrV("")}
        THEN C24_RaisedNaming
        ELSE C24_PositionalFirst(ValStr(val)) /\ C24_FlagsInOrder

\* a command with the positional value third and five flags after it
C24_Witness ==
    /\ C22_Returned
    /\ C24_Tool.has_subparser
    /\ C22_Cmd[3] = "illumina"
    /\ \A flag \in {"--nb-cpus", "--debug", "--merge-software", "--input-R1", "--output-fasta"} :
          C22_Positions(flag) # {}

\* the flag of p occurs once in the command and the token after it is value
C25_FlagWithValue(p, value) ==
    /\ Cardinality(C22_Positions(p.cli_flag)) = 1
    /\ \A i \in C22_Positions(p.cli_flag) : i < Len(C22_Cmd) /\ C22_Cmd[i + 1] = value

\* the path an output-file value is written as: joined onto the job working
\* directory unless it is absolute or empty
C25_PathOf(p, string) ==
    IF p.is_output_file /\ string # "" /\ SubSeq(string, 1, 1) # "/"
    THEN build.job_dir \o "/" \o string
    ELSE string

\* what the command holds for the declared parameter p given the caller's value
C25_FromCaller(p, val) ==
    CASE val = NoneV      -> C22_Positions(p.cli_flag) = {}
      [] p.type = "bool"  -> (C22_Positions(p.cli_flag) # {}) = Truthy(val)
      [] p.type = "list"  -> (C22_Positions(p.cli_flag) # {})
                                = (val \notin {ListV(<<>>), StrV("")})
      [] OTHER            -> C25_FlagWithValue(p, C25_PathOf(p, ValStr(val)))

\* what the command holds for the declared parameter p the caller left out
C25_LeftOut(p) ==
    IF p.is_output_file /\ p.default # NoneV
    THEN C25_FlagWithValue(p, C25_PathOf(p, p.default.s))
    ELSE IF p.python_name = "nb_cpus"
    THEN C25_FlagWithValue(p, IntStr(DEFAULT_NB_CPUS))
    ELSE C22_Positions(p.cli_flag) = {}

\* the strings of a caller's value
C25_Strings(val) ==
    CASE val.k = "list" -> Range(val.l)
      [] val.k = "none" -> {}
      [] OTHER          -> {ValStr(val)}

\* the strings of the caller's values under the keys the tool declares
C25_DeclaredStrings ==
    UNION {C25_Strings(build.params[n]) : n \in DOMAIN build.params \cap param_map(C24_Tool)}

\* the flags of the whole catalogue
C25_CatalogueFlags ==
    UNION {{p.cli_flag : p \in Range(TOOLS[t].params)} : t \in DOMAIN TOOLS} \ {""}

\* C25: in the command build_command returns, every non-positional parameter
\* of the tool has the caller's value when the key is supplied (nothing for
\* None); when it is not supplied, an output-file parameter has its declared
\* default, a declared nb_cpus has the configured default, and any other
\* parameter is omitted whatever its declared default; keys the tool does not
\* declare contribute neither a flag nor a value (a string that is not also
\* the value of a declared key is not in the command).
C25_EffectiveValues ==
    C22_Returned =>
        /\ \A p \in Range(C24_Tool.params) :
              p.python_name # C24_Tool.subparser_param /\ p.cli_flag # "" =>
                  IF C22_Supplied(p.python_name) # Absent
                  THEN C25_FromCaller(p, C22_Supplied(p.python_name))
                  ELSE C25_LeftOut(p)
        /\ \A flag \in C25_CatalogueFlags \ C22_Flags : C22_Positions(flag) = {}
        /\ \A n \in DOMAIN build.params \ param_map(C24_Tool) :
              \A string \in C25_Strings(build.params[n]) \ C25_DeclaredStrings :
                  C22_Positions(string) = {}

\* a command built for remove_chimera from a dict that leaves out nb_cpus and
\* output_fasta and holds keys the tool does not declare
C25_Witness ==
    /\ C22_Returned
    /\ build.tool_name = "remove_chimera"
    /\ DOMAIN build.params = {"sequencer", "merge_software", "debug", "bogus"}
    /\ C25_FlagWithValue(nb_cpus_param, "4")
    /\ \E i \in C22_Positions("--output-fasta") : isabs(C22_Cmd[i + 1])

\* the effective value of the declared parameter p: the caller's, else the default
C26_Effective(p) ==
    IF C22_Supplied(p.python_name) # Absent THEN C22_Supplied(p.python_name) ELSE p.default

\* the output-file parameters of the tool whose effective value is a non-empty string
C26_Outputs ==
    {p \in Range(C24_Tool.params) :
        p.is_output_file /\ C26_Effective(p).k = "str" /\ C26_Effective(p).s # ""}

\* C26: for every output-file parameter whose effective value is not empty,
\* the value in the command is an absolute path, the effective value itself
\* when that is absolute and else the effective value joined onto the job
\* working directory, and the result map holds exactly that path under the
\* parameter's output key; the keys of the result map are exactly the output
\* keys of these parameters.
C26_OutputsAbsolute ==
    C22_Returned =>
        /\ \A p \in C26_Outputs :
              LET path == C25_PathOf(p, C26_Effective(p).s) IN
              /\ SubSeq(path, 1, 1) = "/"
              /\ SubSeq(C26_Effective(p).s, 1, 1) = "/" => path = C26_Effective(p).s
              /\ C25_FlagWithValue(p, path)
              /\ p.output_key \in DOMAIN build.out[1].outputs
              /\ build.out[1].outputs[p.output_key] = path
        /\ DOMAIN build.out[1].outputs = {p.output_key : p \in C26_Outputs}

\* a command with an absolute output path given by the caller, kept, and the
\* default of the other output joined onto the job working directory
C26_Witness ==
    /\ C22_Returned
    /\ build.tool_name = "reads_processing"
    /\ C22_Supplied("output_fasta") = StrV("/data/out.fasta")
    /\ build.out[1].outputs =
          [k \in {"fasta", "biom"} |->
              IF k = "fasta" THEN "/data/out.fasta"
              ELSE build.job_dir \o "/reads_processing_abundance.biom"]

\* the caller's explicit parameters laid over the resolver's values for the
\* project and the step, which are taken only when auto_resolve_inputs is set
C27_Overlaid(project_id, step_name, params, auto_resolve_inputs) ==
    LET resolved == IF auto_resolve_inputs
                    THEN resolve_inputs_for_step(jobs, project_id, step_name)
                    ELSE EmptyMap
    IN [n \in DOMAIN resolved \cup DOMAIN params |->
          IF n \in DOMAIN params THEN params[n] ELSE StrV(resolved[n])]

\* C27: a call of submit_pipeline_step for a project that does not exist or
\* a step that is not in the catalogue returns an error and creates no job
\* record, working directory, process or registry entry; any other call hands
\* the launcher the auto-resolved inputs overlaid by the caller's explicit
\* parameters, the caller's value winning on a common key, and the caller's
\* parameters alone when auto_resolve_inputs is false: these are the
\* parameters of the job record the call inserts.
C27_CallerOverResolved ==
    [][\A project_id \in ResolveProjects, call \in StepCalls, auto_resolve_inputs \in BOOLEAN :
          submit_pipeline_step(project_id, call[1], call[2], auto_resolve_inputs) =>
              IF project_id \notin projects \/ call[1] \notin DOMAIN TOOLS
              THEN /\ ret'.op = "submit_pipeline_step"
                   /\ ret'.result \in {"ProjectNotFound", "UnknownStep"}
                   /\ UNCHANGED <<jobs, procs, dirs, active>>
              ELSE \A j \in DOMAIN jobs' \ DOMAIN jobs :
                      /\ jobs'[j].params
                            = C27_Overlaid(project_id, call[1], call[2], auto_resolve_inputs)
                      /\ \A n \in DOMAIN call[2] : jobs'[j].params[n] = call[2][n]
                      /\ ~auto_resolve_inputs => jobs'[j].params = call[2]]_vars

\* a remove_chimera job launched with the caller's own input_fasta and the
\* input_biom the resolver found among the outputs of a completed job
C27_Witness ==
    \E j \in DOMAIN jobs :
        /\ jobs[j].tool_name = "remove_chimera"
        /\ DOMAIN jobs[j].params = {"input_fasta", "input_biom"}
        /\ jobs[j].params["input_fasta"] = StrV("/data/own.fasta")
        /\ \E k \in DOMAIN jobs :
              /\ jobs[k].status = "completed"
              /\ "biom" \in DOMAIN jobs[k].output_files
              /\ jobs[j].params["input_biom"] = StrV(jobs[k].output_files["biom"])

\* C28: with a poller that keeps ticking and a store that does not fail,
\* every registered job whose process has exited is eventually out of the live
\* registry with a terminal status persisted; and a registered job whose
\* process has neither exited nor been signalled by a cancel is in the live
\* registry with status running, in every state, hence for as long as its
\* process runs uncancelled.
C28_ExitedJobsSettle ==
    /\ \A j \in JobIds :
          (j \in DOMAIN active /\ poll(procs, j) # Null)
             ~> (j \notin DOMAIN active /\ j \in DOMAIN jobs /\ jobs[j].status \in Terminal)
    /\ [](\A j \in DOMAIN jobs :
             j \in DOMAIN procs /\ procs[j].state = "running"
                => j \in DOMAIN active /\ jobs[j].status = "running")

\* one job settled by the monitor while another still runs, registered
C28_Witness ==
    \E j, k \in DOMAIN jobs :
        /\ j \notin DOMAIN active
        /\ jobs[j].status \in {"completed", "failed"}
        /\ jobs[j].exit_code # Null
        /\ k \in DOMAIN active
        /\ k \in DOMAIN procs /\ procs[k].state = "running"
        /\ jobs[k].status = "running"

\* C29: register and the poller's scan-and-removal exclude each other: a
\* step that puts a job into the live registry is taken with the lock free,
\* never between the poller's entry into its with block and its exit; the
\* registry does not change while the poller iterates over it; a submit_job
\* call that has reached register leaves it with its job in the registry; and
\* a job leaves the registry only at the end of a scan in which its process
\* was polled and found exited.
C29_RegisterExcludesScan ==
    [][/\ DOMAIN active' \ DOMAIN active # {}
             => lock.holder = "none" /\ lock'.holder = "none"
       /\ lock.holder = "poller" /\ lock'.holder = "poller" => active' = active
       /\ \A j \in lock.waiting \ lock'.waiting : j \in DOMAIN active'
       /\ \A j \in DOMAIN active \ DOMAIN active' :
             /\ lock.holder = "poller"
             /\ \E c \in Range(lock.found) : c.job_id = j /\ c.rc \in Int
             /\ j \notin DOMAIN procs]_vars

\* a submit_job call has reached register while the poller holds the lock,
\* having found an exited job it has not yet removed
C29_Witness ==
    /\ lock.holder = "poller"
    /\ lock.found # <<>>
    /\ lock.waiting # {}

\* C30: once submit has returned for a job run as a named pipeline step, and
\* for as long as that job has no terminal status, the step's record has
\* status running and is linked to the job (the latest job submitted for the
\* step, when there are several).
C30_StepRunningWhileJobRuns ==
    \A j \in DOMAIN jobs :
        /\ jobs[j].project_id # None
        /\ jobs[j].step_name # None
        /\ jobs[j].status \notin Terminal
        /\ ~ \E k \in DOMAIN jobs :
                /\ k > j
                /\ jobs[k].project_id = jobs[j].project_id
                /\ jobs[k].step_name = jobs[j].step_name
        => /\ steps[jobs[j].project_id][jobs[j].step_name].status = "running"
           /\ steps[jobs[j].project_id][jobs[j].step_name].job_id = Some(j)

-----------------------------------------------------------------------------
(* Claims on the rules of the resolver, on restarts, and on what the       *)
(* store and the registry hold under the launcher, the monitor and cancel  *)

\* the indexes the call recorded in res built from the store
C31_Rows == SortedByStart(get_completed_jobs_for_project(jobs, res.project_id))
C31_FullIndex == FullIndex(C31_Rows, 1, EmptyMap)
C31_KeyIndex == KeyIndex(C31_Rows, 1, EmptyMap)

\* the rules into the step of the call, and its input-file parameters
C31_Rules == RulesByTarget(res.step_name)
C31_Inputs == target_input_params(TOOLS[res.step_name])

\* rule i has a fully-qualified hit; it has a hit in the loose index
C31_FullHit(i) == full_key(C31_Rules[i][1], C31_Rules[i][2]) \in DOMAIN C31_FullIndex
C31_LooseHit(i) == C31_Rules[i][2] \in DOMAIN C31_KeyIndex

\* the value rule i contributes, when it contributes one
C31_Contribution(i) ==
    IF C31_FullHit(i) THEN C31_FullIndex[full_key(C31_Rules[i][1], C31_Rules[i][2])]
    ELSE C31_KeyIndex[C31_Rules[i][2]]

\* the rules for parameter q that contribute a value
C31_Contributing(q) ==
    {i \in DOMAIN C31_Rules : C31_Rules[i][3] = q /\ (C31_FullHit(i) \/ C31_LooseHit(i))}

\* C31: when several rules target the same step and parameter, the value
\* resolve_inputs_for_step returns for the parameter is the one contributed by
\* the last rule, in rule-list order, that contributes a value; rules that
\* contribute nothing change nothing.
C31_LastContributingRuleWins ==
    res # NoCall /\ res.step_name \in DOMAIN TOOLS =>
        \A q \in C31_Inputs :
            C31_Contributing(q) # {} =>
                /\ q \in DOMAIN res.resolved
                /\ \E i \in C31_Contributing(q) :
                      /\ \A k \in C31_Contributing(q) : k <= i
                      /\ res.resolved[q] = C31_Contribution(i)

\* two rules for input_biom of affiliation_postprocess contribute different
\* paths and the call returned the later rule's
C31_Witness ==
    /\ res # NoCall
    /\ res.step_name = "affiliation_postprocess"
    /\ \E i, k \in C31_Contributing("input_biom") :
          /\ i < k
          /\ C31_Contribution(i) # C31_Contribution(k)
          /\ res.resolved["input_biom"] = C31_Contribution(k)

\* the entries the rule loop of the call in res leaves in resolved
C32_ByRules == ApplyRules(C31_Rules, 1, C31_Inputs, C31_FullIndex, C31_KeyIndex, EmptyMap)

\* the entries of the fallback table whose generic name is q and whose output key
\* is in the loose index
C32_TableHits(q) ==
    {i \in DOMAIN OUTPUT_KEY_TO_INPUT_PARAM :
        /\ OUTPUT_KEY_TO_INPUT_PARAM[i][2] = q
        /\ OUTPUT_KEY_TO_INPUT_PARAM[i][1] \in DOMAIN C31_KeyIndex}

\* C32: an input-file parameter of the target step that no rule resolved is in
\* the result when and only when it is a generic name of the fallback table and
\* the loose index holds the output key of that entry, and its value is then
\* the loose index's path for that key; a parameter a rule resolved keeps the
\* rule's value.
C32_FallbackOnlyForUnresolved ==
    res # NoCall /\ res.step_name \in DOMAIN TOOLS =>
        /\ \A q \in C31_Inputs \ DOMAIN C32_ByRules :
              /\ q \in DOMAIN res.resolved <=> C32_TableHits(q) # {}
              /\ q \in DOMAIN res.resolved =>
                    \E i \in C32_TableHits(q) :
                        res.resolved[q] = C31_KeyIndex[OUTPUT_KEY_TO_INPUT_PARAM[i][1]]
        /\ \A q \in DOMAIN C32_ByRules :
              q \in DOMAIN res.resolved /\ res.resolved[q] = C32_ByRules[q]

\* a call for a step without rules: the fallback has filled input_biom from the
\* loose index and has left input_fasta, whose key the index does not hold
C32_Witness ==
    /\ res # NoCall
    /\ res.step_name = "biom_to_tsv"
    /\ "input_biom" \in DOMAIN res.resolved
    /\ res.resolved["input_biom"] = C31_KeyIndex["biom"]
    /\ "input_fasta" \notin DOMAIN res.resolved

\* the rules of the call in res into parameter q that have a fully-qualified hit
C34_FullHits(q) == {i \in DOMAIN C31_Rules : C31_Rules[i][3] = q /\ C31_FullHit(i)}

\* C34: when at least one rule into a parameter of the target step has a
\* fully-qualified hit, the value returned for the parameter is the
\* fully-qualified hit of one of those rules; the loose hit of another rule
\* into the same parameter does not replace it.
C34_FullHitNotReplacedByLoose ==
    res # NoCall /\ res.step_name \in DOMAIN TOOLS =>
        \A q \in C31_Inputs :
            C34_FullHits(q) # {} =>
                /\ q \in DOMAIN res.resolved
                /\ \E i \in C34_FullHits(q) :
                      res.resolved[q] = C31_FullIndex[full_key(C31_Rules[i][1], C31_Rules[i][2])]

\* job j is recorded as running and the registry has no entry for it
C33_RunningUnregistered(j) ==
    j \in DOMAIN jobs /\ jobs[j].status = "running" /\ j \notin DOMAIN active

\* C33: after a restart has emptied the registry no job stays recorded as
\* running for ever without a registry entry: again and again the job is not
\* in that condition (the startup has re-probed it or has given it another
\* status).
C33_NoJobRunningForeverUnregistered ==
    \A j \in JobIds : []<>(~C33_RunningUnregistered(j))

\* the monitor has written the terminal status of job j and has not yet looked
\* for its output files: the stored map is still the anticipated one
C35_NotYetPruned(j) ==
    mon.pc = "outputs" /\ mon.completed # <<>> /\ Head(mon.completed).job_id = j

\* C35: a call of resolve_inputs_for_step returns no path of a job whose
\* record has status completed while its output map is the anticipated one,
\* not yet reduced by the monitor to the files that exist.
C35_ResolvedOnlyFromPruned ==
    [][ResolveInputs =>
          \A q \in DOMAIN res'.resolved : \A j \in DOMAIN jobs :
              res'.resolved[q] \in Range(jobs[j].output_files) => ~C35_NotYetPruned(j)]_vars

\* C36: once a call of submit_job has ended, by return or by exception, every
\* process it has started that is running has a job record in the store and
\* an entry in the registry.
C36_StartedProcessTracked ==
    \A pid \in DOMAIN procs :
        procs[pid].state = "running" => pid \in DOMAIN jobs /\ pid \in DOMAIN active

\* the record of job j is of one of the four kinds
C37_Consistent(j) ==
    LET r == jobs[j] IN
    \/ r.status = "running" /\ r.exit_code = Null /\ r.end_time = Null
    \/ r.status = "completed" /\ r.exit_code = Some(0)
    \/ r.status = "failed" /\ r.exit_code # Null /\ r.exit_code[1] # 0
    \/ r.status = "cancelled" /\ r.exit_code = Some(0 - SIGTERM)

\* C37: every job record is running without exit code and end time, or
\* completed with exit code 0, or failed with an exit code other than 0, or
\* cancelled with exit code -15, whatever the order in which the monitor and
\* cancel have written.
C37_StatusAndExitCodeAgree ==
    \A j \in DOMAIN jobs : C37_Consistent(j)

\* cancel has written its status for a job whose exit the monitor has seen and
\* is about to record
C37_Witness ==
    /\ mon.pc = "status"
    /\ mon.completed # <<>>
    /\ Head(mon.completed).job_id \in DOMAIN jobs
    /\ jobs[Head(mon.completed).job_id].status = "cancelled"
    /\ jobs[Head(mon.completed).job_id].exit_code = Some(0 - SIGTERM)

\* the output map build_command anticipated for the command of job j
C38_Anticipated(j) ==
    build_command(TOOLS[jobs[j].tool_name], jobs[j].params, jobs[j].working_dir).outputs

\* C38: every job id in the registry has a record in the store, and the
\* record holds the anticipated output map of the job; the jobs the monitor
\* has taken from the registry and is processing have a record too.
C38_RegisteredAfterStored ==
    /\ \A j \in DOMAIN active :
          /\ j \in DOMAIN jobs
          /\ jobs[j].output_files = C38_Anticipated(j)
    /\ \A i \in DOMAIN mon.completed : mon.completed[i].job_id \in DOMAIN jobs

\* one job is registered with its output map stored, and the launcher has
\* stored the record of another and is about to register it
C38_Witness ==
    /\ \E j \in DOMAIN active : j \in DOMAIN jobs /\ jobs[j].output_files # EmptyMap
    /\ \E k \in lock.waiting : k \in DOMAIN jobs /\ k \notin DOMAIN active

\* job j has been registered and the monitor has removed it from the registry
C39_Removed(j) == j \in DOMAIN jobs /\ j \notin DOMAIN active

\* the jobs the tick with position m has found and has not yet dealt with
C39_InTick(m) == {m.completed[i].job_id : i \in DOMAIN m.completed}

\* C39: the monitor reports a job at most once.  A tick takes up a job only
\* by removing it from the registry; a job that is out of the registry is
\* never registered again and, once a tick is through with it (its updates
\* made or failed), is taken up by no tick again; and a step of the monitor
\* writes the record of no job but the one the tick is dealing with.
C39_ReportedAtMostOnce ==
    [][\A j \in JobIds :
          /\ C39_Removed(j) => j \notin DOMAIN active'
          /\ j \notin C39_InTick(mon) /\ j \in C39_InTick(mon') =>
                j \in DOMAIN active /\ j \notin DOMAIN active'
          /\ C39_Removed(j) /\ j \notin C39_InTick(mon) => j \notin C39_InTick(mon')
          /\ mon' # mon /\ j \in DOMAIN jobs /\ jobs'[j] # jobs[j] =>
                mon.completed # <<>> /\ j = Head(mon.completed).job_id]_vars

\* the update of a job has failed, its record still says running, and a tick
\* is dealing with another job
C39_Witness ==
    \E j \in DOMAIN jobs :
        /\ C39_Removed(j)
        /\ jobs[j].status = "running"
        /\ j \notin C39_InTick(mon)
        /\ mon.pc = "status"

\* job j is tied to step s of project p
C40_Tied(j, p, s) == j \in DOMAIN jobs /\ jobs[j].project_id = p /\ jobs[j].step_name = s

\* the job whose terminal status the monitor has just persisted: the one its
\* tick is dealing with, between update_job_status and the end of the iteration
C40_JustPersisted == Head(mon.completed)

\* C40: when several jobs are tied to one (project, step), the step record has
\* the status and the job id of the job whose terminal status the monitor
\* persisted most recently.  Read in the states where that job is known: the
\* job the monitor has written the status of and is still dealing with.
C40_StepIsLastPersisted ==
    mon.pc \in {"outputs", "step"} =>
        LET c == C40_JustPersisted IN
        /\ C40_Tied(c.job_id, c.project_id, c.step_name)
        /\ c.project_id \in DOMAIN steps
        /\ c.step_name \in DOMAIN steps[c.project_id]
        /\ \E k \in DOMAIN jobs : k # c.job_id /\ C40_Tied(k, c.project_id, c.step_name)
        => /\ steps[c.project_id][c.step_name].status = StatusOf(c.rc)
           /\ steps[c.project_id][c.step_name].job_id = Some(c.job_id)

\* C40 amended: a step record changes only in the step update that ends the
\* monitor's dealing with a job tied to the step, and it then gets the status
\* and the id of that job, whether the job linked before was submitted earlier
\* or later; that job is the one whose terminal status the monitor persisted
\* last, since the monitor writes a status only for the job at the head of its
\* tick and goes on to the step update of the same job.
C40_StepFollowsLastPersisted ==
    [][/\ \A p \in DOMAIN steps : \A s \in DOMAIN steps[p] :
             steps'[p][s] # steps[p][s] =>
                 /\ mon.pc = "step"
                 /\ C40_JustPersisted.project_id = p /\ C40_JustPersisted.step_name = s
       /\ mon.pc = "step" /\ mon' # mon =>
             LET c == C40_JustPersisted IN
             C40_Tied(c.job_id, c.project_id, c.step_name) /\ c.project_id # None /\ c.step_name # None =>
                 /\ steps'[c.project_id][c.step_name].status = StatusOf(c.rc)
                 /\ steps'[c.project_id][c.step_name].job_id = Some(c.job_id)
                 /\ jobs[c.job_id].end_time # Null
       /\ \A j \in DOMAIN jobs :
             jobs'[j].status # jobs[j].status /\ jobs'[j].status \in {"completed", "failed"} =>
                 /\ mon.pc = "status" /\ C40_JustPersisted.job_id = j
                 /\ mon'.pc = "outputs" /\ Head(mon'.completed) = C40_JustPersisted
      ]_vars

\* two jobs of one step, both recorded by the monitor: the step record links
\* to the one submitted first, which the monitor has dealt with last
C40_Witness ==
    /\ mon.pc = "sleep"
    /\ \E j, k \in DOMAIN jobs :
          /\ j < k
          /\ C40_Tied(j, "p1", "reads_processing") /\ C40_Tied(k, "p1", "reads_processing")
          /\ jobs[j].status = "completed" /\ jobs[k].status = "failed"
          /\ steps["p1"]["reads_processing"].job_id = Some(j)
          /\ steps["p1"]["reads_processing"].status = "completed"

====
